---- MODULE Spec2Model ----
(***************************************************************************)
(* Model of the miniflux-mcp server (src/src/server.ts, first listing):    *)
(* the text normalisation helpers, the two tiered name resolvers           *)
(* resolveCategoryId / resolveFeedId and the searchEntries handler, run    *)
(* against an upstream Miniflux catalog that the server only reads.        *)
(*                                                                         *)
(* A string is a sequence of characters.  A character is a one-character   *)
(* TLA+ string for ASCII and "U+XXXX" for a code point outside ASCII.      *)
(* An optional value (a field that may be null or missing, an argument     *)
(* that may be left out) is <<>> when absent and <<v>> when present.       *)
(***************************************************************************)
EXTENDS Integers, Sequences, FiniteSets, TLC

(***************************************************************************)
(* Characters                                                              *)
(***************************************************************************)
LowerSeq ==
    << "a", "b", "c", "d", "e", "f", "g", "h", "i", "j", "k", "l", "m",
       "n", "o", "p", "q", "r", "s", "t", "u", "v", "w", "x", "y", "z" >>

UpperSeq ==
    << "A", "B", "C", "D", "E", "F", "G", "H", "I", "J", "K", "L", "M",
       "N", "O", "P", "Q", "R", "S", "T", "U", "V", "W", "X", "Y", "Z" >>

DigitSeq ==
    << "0", "1", "2", "3", "4", "5", "6", "7", "8", "9" >>

Range(s) ==
    { s[i] : i \in DOMAIN s }

LowerChars == Range(LowerSeq)
UpperChars == Range(UpperSeq)
DigitChars == Range(DigitSeq)
AlnumChars == LowerChars \cup UpperChars \cup DigitChars

\* U+00E9 is e-acute, U+00C9 is E-acute (both precomposed), U+0301 the combining
\* acute accent, U+00F8 o-with-stroke (a letter with no decomposition).
EAcute == "U+00E9"
CapEAcute == "U+00C9"
CombAcute == "U+0301"
OStroke == "U+00F8"

\* The code points of the block U+0300..U+036F that the model's alphabet holds.
CombiningMarks ==
    { CombAcute }

\* The lower-case letter of each upper-case ASCII letter.
AsciiLower ==
    [c \in UpperChars |-> LowerSeq[CHOOSE i \in DOMAIN UpperSeq : UpperSeq[i] = c]]

\* String.prototype.normalize("NFKD") on one character.
NFKDChar(c) ==
    CASE c = EAcute -> << "e", CombAcute >>
      [] c = CapEAcute -> << "E", CombAcute >>
      [] OTHER -> << c >>

\* String.prototype.toLowerCase on one character.
LowerChar(c) ==
    CASE c \in UpperChars -> AsciiLower[c]
      [] c = CapEAcute -> EAcute
      [] OTHER -> c

\* The class [a-z0-9] under the i flag: ASCII letters of either case and digits.
IsAlnum(c) ==
    c \in AlnumChars

(***************************************************************************)
(* String helpers                                                          *)
(***************************************************************************)
\* String.prototype.normalize("NFKD")
RECURSIVE NFKD(_)
NFKD(s) ==
    IF s = << >> THEN << >> ELSE NFKDChar(Head(s)) \o NFKD(Tail(s))

toLowerCase(s) ==
    [i \in DOMAIN s |-> LowerChar(s[i])]

\* s.replace(/[\u0300-\u036f]/g, "")
RemoveMarks(s) ==
    SelectSeq(s, LAMBDA c : c \notin CombiningMarks)

\* String.prototype.includes
Includes(hay, needle) ==
    \E i \in 0 .. (Len(hay) - Len(needle)) :
        \A j \in 1 .. Len(needle) : hay[i + j] = needle[j]

\* s.split(/[^a-z0-9]+/gi).filter(token => token.length > 0), scanning left to
\* right with the token being read in cur.
RECURSIVE SplitAlnum(_, _)
SplitAlnum(s, cur) ==
    IF s = << >>
    THEN IF cur = << >> THEN << >> ELSE << cur >>
    ELSE IF IsAlnum(Head(s))
         THEN SplitAlnum(Tail(s), Append(cur, Head(s)))
         ELSE (IF cur = << >> THEN << >> ELSE << cur >>) \o SplitAlnum(Tail(s), << >>)

(***************************************************************************)
(* Normalisation helpers, server.ts lines 58-80                            *)
(***************************************************************************)
\* Mutant: the marks are removed without decomposing first.
stripDiacritics_NoDecompose(input) ==
    RemoveMarks(input)

stripDiacritics(input) ==
    RemoveMarks(NFKD(input))

toLower(input) ==
    toLowerCase(stripDiacritics(input))

\* Mutant: spaces survive the collapse.
collapseNonAlnum_KeepSpaces(input) ==
    SelectSeq(toLower(input), LAMBDA c : IsAlnum(c) \/ c = " ")

collapseNonAlnum(input) ==
    SelectSeq(toLower(input), IsAlnum)

tokenizeAlnum(input) ==
    SplitAlnum(toLower(input), << >>)

\* Mutant: the token sets must be equal.
tokensAreSubset_Equal(queryTokens, targetTokens) ==
    /\ Len(queryTokens) # 0
    /\ Range(queryTokens) = Range(targetTokens)

\* Mutant: the query's tokens must be found in the title in the query's order.
tokensAreSubset_InOrder(queryTokens, targetTokens) ==
    /\ Len(queryTokens) # 0
    /\ \E pick \in [DOMAIN queryTokens -> DOMAIN targetTokens] :
           /\ \A i \in DOMAIN queryTokens : targetTokens[pick[i]] = queryTokens[i]
           /\ \A i \in DOMAIN queryTokens, j \in DOMAIN queryTokens :
                  i < j => pick[i] < pick[j]

tokensAreSubset(queryTokens, targetTokens) ==
    IF Len(queryTokens) = 0
    THEN FALSE
    ELSE \A i \in DOMAIN queryTokens : queryTokens[i] \in Range(targetTokens)

(***************************************************************************)
(* Optional values                                                         *)
(***************************************************************************)
None == << >>

Some(v) == << v >>

\* (v || ""): a null or missing string counts as the empty string.
OrEmpty(opt) ==
    IF opt = None THEN << >> ELSE opt[1]

(***************************************************************************)
(* Input pools: the titles, URLs and queries the model draws from          *)
(***************************************************************************)
Space == " "

TechNews == << "T", "e", "c", "h", Space, "N", "e", "w", "s" >>
TechNewsLower == << "t", "e", "c", "h", Space, "n", "e", "w", "s" >>
TechNewsDashed == << "T", "e", "c", "h", "-", "N", "e", "w", "s" >>
TechNewsDaily == TechNews \o << Space, "D", "a", "i", "l", "y" >>
NewsTech == << "N", "e", "w", "s", Space, "T", "e", "c", "h" >>
Tech == << "T", "e", "c", "h" >>
Ews == << "e", "w", "s" >>
AICodeKingSpaced == << "A", "I", Space, "C", "o", "d", "e", Space, "K", "i", "n", "g" >>
AICodeKing == << "A", "I", "C", "o", "d", "e", "K", "i", "n", "g" >>
AICodeKingLower == << "a", "i", "c", "o", "d", "e", "k", "i", "n", "g" >>
TechIo == << "t", "e", "c", "h", ".", "i", "o" >>
TechIoRss == TechIo \o << "/", "r", "s", "s" >>
Rss == << "R", "S", "S" >>

CategoryTitles ==
    { TechNews, TechNewsLower, TechNewsDashed, TechNewsDaily }

\* (title, site_url, feed_url) of the feeds upstream may hold.
FeedShapes ==
    { << AICodeKingSpaced, None, None >>,
      << AICodeKingLower, Some(TechIo), Some(TechIoRss) >>,
      << TechNews, Some(TechIo), None >>,
      << TechNewsDaily, None, Some(TechIoRss) >> }

Queries ==
    { TechNews, NewsTech, Tech, Ews, AICodeKing, TechIo, Rss }

\* URLs a feed may carry.
FeedUrls ==
    { OrEmpty(shape[2]) : shape \in FeedShapes } \cup { OrEmpty(shape[3]) : shape \in FeedShapes }

PoolStrings ==
    CategoryTitles \cup { shape[1] : shape \in FeedShapes } \cup FeedUrls \cup Queries

(***************************************************************************)
(* The normalisation helpers are pure, and a handler applies them to the   *)
(* same titles on every call: their values on the pool strings are         *)
(* tabulated once and read from the table; any other string is computed.   *)
(***************************************************************************)
TextForms ==
    [s \in PoolStrings |-> [lower |-> toLower(s),
                            collapsed |-> collapseNonAlnum(s),
                            tokens |-> tokenizeAlnum(s)]]

Lower(s) ==
    IF s \in PoolStrings THEN TextForms[s].lower ELSE toLower(s)

Collapsed(s) ==
    IF s \in PoolStrings THEN TextForms[s].collapsed ELSE collapseNonAlnum(s)

Tokens(s) ==
    IF s \in PoolStrings THEN TextForms[s].tokens ELSE tokenizeAlnum(s)

(***************************************************************************)
(* Array helpers                                                           *)
(***************************************************************************)
\* Mutant: the last element satisfying the test wins.
FirstTrue_Last(flags) ==
    CHOOSE i \in DOMAIN flags : flags[i] /\ \A j \in (i + 1) .. Len(flags) : ~flags[j]

\* The index Array.prototype.find stops at: the least index whose test is true.
FirstTrue(flags) ==
    CHOOSE i \in DOMAIN flags : flags[i] /\ \A j \in 1 .. (i - 1) : ~flags[j]

\* Array.prototype.find: the first element whose test is true, if any;
\* flags[i] is the test's value on arr[i].
Find(arr, flags) ==
    IF \E i \in DOMAIN arr : flags[i]
    THEN Some(arr[FirstTrue(flags)])
    ELSE None

(***************************************************************************)
(* Tool results.  A handler either returns { content, isError? } or throws. *)
(* content is the object that is serialised into the single text item; a    *)
(* success result has no isError key at all.                                *)
(***************************************************************************)
Success(payload) ==
    [content |-> payload]

\* Mutant: an error payload returned without the isError flag.
Failure_NoFlag(payload) ==
    [content |-> payload]

Failure(payload) ==
    [content |-> payload, isError |-> TRUE]

Thrown(message) ==
    [threw |-> message]

\* json(res): a response that is not ok makes the handler throw
\* "HTTP <status> ..."; a fetch that rejects makes apiRequest throw.
UpstreamStatuses == { "ok", "http_error", "network_error" }

FetchError(status) ==
    IF status = "http_error" THEN Thrown("HTTP") ELSE Thrown("fetch failed")

(***************************************************************************)
(* resolveCategoryId, server.ts lines 142-232, applied to the array that   *)
(* GET /v1/categories returned.  The value is the handler's result and the *)
(* tier whose return statement produced it (0: the final not-found).       *)
(***************************************************************************)
CategoryCandidate(c) ==
    [id |-> c.id, title |-> c.title]

\* Lines 146-149 (254-257 in resolveFeedId): the forms of the query, computed
\* once per call.
QueryForms(raw) ==
    [raw |-> raw,
     lower |-> Lower(raw),
     collapsed |-> Collapsed(raw),
     queryTokens |-> Tokens(raw)]

\* Mutant: the exact tier compares case-insensitively.
CategoryExact_IgnoreCase(c, q) ==
    Lower(c.title) = q.lower

CategoryExact(c, q) ==
    c.title = q.raw

CategoryLowerEq(c, q) ==
    Lower(c.title) = q.lower

CategoryCollapsedEq(c, q) ==
    Collapsed(c.title) = q.collapsed

CategoryTokenHit(c, q) ==
    tokensAreSubset(q.queryTokens, Tokens(c.title))

\* Mutant: an empty form of the query is contained in nothing.
CategoryPartialHit_NonEmpty(c, q) ==
    \/ q.lower # << >> /\ Includes(Lower(c.title), q.lower)
    \/ q.collapsed # << >> /\ Includes(Collapsed(c.title), q.collapsed)

CategoryPartialHit(c, q) ==
    \/ Includes(Lower(c.title), q.lower)
    \/ Includes(Collapsed(c.title), q.collapsed)

\* Mutant: the collapsed comparison is tried before the other two.
CategoryMatch_CollapsedFirst(cats, q) ==
    LET exact == Find(cats, [i \in DOMAIN cats |-> CategoryExact(cats[i], q)])
        ci == Find(cats, [i \in DOMAIN cats |-> CategoryLowerEq(cats[i], q)])
        coll == Find(cats, [i \in DOMAIN cats |-> CategoryCollapsedEq(cats[i], q)])
    IN  IF coll # None THEN [match |-> coll, tier |-> 3]
        ELSE IF exact # None THEN [match |-> exact, tier |-> 1]
        ELSE IF ci # None THEN [match |-> ci, tier |-> 2]
        ELSE [match |-> None, tier |-> 0]

\* Lines 151-162: the three find calls, each made only when the ones before it
\* found nothing.  tier is the find that produced the match (0: none did).
CategoryMatch(cats, q) ==
    LET exact == Find(cats, [i \in DOMAIN cats |-> CategoryExact(cats[i], q)])
        ci == Find(cats, [i \in DOMAIN cats |-> CategoryLowerEq(cats[i], q)])
        coll == Find(cats, [i \in DOMAIN cats |-> CategoryCollapsedEq(cats[i], q)])
    IN  IF exact # None THEN [match |-> exact, tier |-> 1]
        ELSE IF ci # None THEN [match |-> ci, tier |-> 2]
        ELSE IF coll # None THEN [match |-> coll, tier |-> 3]
        ELSE [match |-> None, tier |-> 0]

\* Mutant: the partial tier returns the first record that hits.
resolveCategoryId_FirstPartial(cats, category_name) ==
    LET q == QueryForms(category_name)
        m == CategoryMatch(cats, q)
        tokenCandidates == SelectSeq(cats, LAMBDA c : CategoryTokenHit(c, q))
        partial == SelectSeq(cats, LAMBDA c : CategoryPartialHit(c, q))
        Ambiguous(hits) ==
            Failure([error |-> "AMBIGUOUS_CATEGORY",
                     candidates |-> [i \in DOMAIN hits |-> CategoryCandidate(hits[i])]])
    IN  IF m.match # None
        THEN [result |-> Success([category_id |-> m.match[1].id]), tier |-> m.tier]
        ELSE IF Len(tokenCandidates) = 1
        THEN [result |-> Success([category_id |-> tokenCandidates[1].id]), tier |-> 4]
        ELSE IF Len(tokenCandidates) > 1
        THEN [result |-> Ambiguous(tokenCandidates), tier |-> 4]
        ELSE IF Len(partial) >= 1
        THEN [result |-> Success([category_id |-> partial[1].id]), tier |-> 5]
        ELSE [result |-> Failure([error |-> "CATEGORY_NOT_FOUND"]), tier |-> 0]

resolveCategoryId(cats, category_name) ==
    LET q == QueryForms(category_name)
        m == CategoryMatch(cats, q)
        tokenCandidates == SelectSeq(cats, LAMBDA c : CategoryTokenHit(c, q))
        partial == SelectSeq(cats, LAMBDA c : CategoryPartialHit(c, q))
        Ambiguous(hits) ==
            Failure([error |-> "AMBIGUOUS_CATEGORY",
                     candidates |-> [i \in DOMAIN hits |-> CategoryCandidate(hits[i])]])
    IN  IF m.match # None
        THEN [result |-> Success([category_id |-> m.match[1].id]), tier |-> m.tier]
        ELSE IF Len(tokenCandidates) = 1
        THEN [result |-> Success([category_id |-> tokenCandidates[1].id]), tier |-> 4]
        ELSE IF Len(tokenCandidates) > 1
        THEN [result |-> Ambiguous(tokenCandidates), tier |-> 4]
        ELSE IF Len(partial) = 1
        THEN [result |-> Success([category_id |-> partial[1].id]), tier |-> 5]
        ELSE IF Len(partial) > 1
        THEN [result |-> Ambiguous(partial), tier |-> 5]
        ELSE [result |-> Failure([error |-> "CATEGORY_NOT_FOUND"]), tier |-> 0]

(***************************************************************************)
(* resolveFeedId, server.ts lines 250-379, applied to the array that       *)
(* GET /v1/feeds returned.                                                 *)
(***************************************************************************)
\* Mutant: the feed candidates are projected like category candidates.
FeedCandidate_NoUrls(f) ==
    [id |-> f.id, title |-> f.title]

FeedCandidate(f) ==
    [id |-> f.id, title |-> f.title, site_url |-> f.site_url, feed_url |-> f.feed_url]

FeedExact(f, q) ==
    f.title = q.raw

FeedLowerEq(f, q) ==
    \/ Lower(f.title) = q.lower
    \/ Lower(OrEmpty(f.site_url)) = q.lower
    \/ Lower(OrEmpty(f.feed_url)) = q.lower

\* Mutant: the collapsed tier looks at titles only.
FeedCollapsedEq_TitleOnly(f, q) ==
    Collapsed(f.title) = q.collapsed

FeedCollapsedEq(f, q) ==
    \/ Collapsed(f.title) = q.collapsed
    \/ Collapsed(OrEmpty(f.site_url)) = q.collapsed
    \/ Collapsed(OrEmpty(f.feed_url)) = q.collapsed

FeedTokenHit(f, q) ==
    tokensAreSubset(q.queryTokens, Tokens(f.title))

FeedPartialHit(f, q) ==
    \/ Includes(Lower(f.title), q.lower)
    \/ Includes(Lower(OrEmpty(f.site_url)), q.lower)
    \/ Includes(Lower(OrEmpty(f.feed_url)), q.lower)
    \/ Includes(Collapsed(f.title), q.collapsed)
    \/ Includes(Collapsed(OrEmpty(f.site_url)), q.collapsed)
    \/ Includes(Collapsed(OrEmpty(f.feed_url)), q.collapsed)

resolveFeedId(fds, feed_query) ==
    LET q == QueryForms(feed_query)
        exactTitle == Find(fds, [i \in DOMAIN fds |-> FeedExact(fds[i], q)])
        ciEquals == Find(fds, [i \in DOMAIN fds |-> FeedLowerEq(fds[i], q)])
        collapsedEq == Find(fds, [i \in DOMAIN fds |-> FeedCollapsedEq(fds[i], q)])
        tokenCandidates == SelectSeq(fds, LAMBDA f : FeedTokenHit(f, q))
        partial == SelectSeq(fds, LAMBDA f : FeedPartialHit(f, q))
        Ambiguous(hits) ==
            Failure([error |-> "AMBIGUOUS_FEED",
                     candidates |-> [i \in DOMAIN hits |-> FeedCandidate(hits[i])]])
    IN  IF exactTitle # None
        THEN [result |-> Success([feed_id |-> exactTitle[1].id]), tier |-> 1]
        ELSE IF ciEquals # None
        THEN [result |-> Success([feed_id |-> ciEquals[1].id]), tier |-> 2]
        ELSE IF collapsedEq # None
        THEN [result |-> Success([feed_id |-> collapsedEq[1].id]), tier |-> 3]
        ELSE IF Len(tokenCandidates) = 1
        THEN [result |-> Success([feed_id |-> tokenCandidates[1].id]), tier |-> 4]
        ELSE IF Len(tokenCandidates) > 1
        THEN [result |-> Ambiguous(tokenCandidates), tier |-> 4]
        ELSE IF Len(partial) = 1
        THEN [result |-> Success([feed_id |-> partial[1].id]), tier |-> 5]
        ELSE IF Len(partial) > 1
        THEN [result |-> Ambiguous(partial), tier |-> 5]
        ELSE [result |-> Failure([error |-> "FEED_NOT_FOUND"]), tier |-> 0]

(***************************************************************************)
(* Numbers as text.  A number that goes into a query string is written in  *)
(* decimal; epoch values do not fit TLC's integers as milliseconds, so the *)
(* time helpers work on the decimal digits.                                *)
(***************************************************************************)
DigitValue(c) ==
    (CHOOSE i \in DOMAIN DigitSeq : DigitSeq[i] = c) - 1

\* String(n) for an integer n.
RECURSIVE NatToDecimal(_)
NatToDecimal(n) ==
    IF n < 10 THEN << DigitSeq[n + 1] >>
    ELSE Append(NatToDecimal(n \div 10), DigitSeq[(n % 10) + 1])

ToDecimal(n) ==
    IF n < 0 THEN << "-" >> \o NatToDecimal(0 - n) ELSE NatToDecimal(n)

\* The value of a run of digits that fits an integer.
RECURSIVE DigitsToNat(_)
DigitsToNat(ds) ==
    IF ds = << >> THEN 0
    ELSE 10 * DigitsToNat(SubSeq(ds, 1, Len(ds) - 1)) + DigitValue(ds[Len(ds)])

\* String(Number(s)) for a run of digits s: the digits without leading zeros.
RECURSIVE StripLeadingZeros(_)
StripLeadingZeros(ds) ==
    IF Len(ds) > 1 /\ Head(ds) = "0" THEN StripLeadingZeros(Tail(ds)) ELSE ds

\* String.prototype.trim for the blank of the model's alphabet.
RECURSIVE TrimLeft(_)
TrimLeft(s) ==
    IF s # << >> /\ Head(s) = " " THEN TrimLeft(Tail(s)) ELSE s

RECURSIVE TrimRight(_)
TrimRight(s) ==
    IF s # << >> /\ s[Len(s)] = " " THEN TrimRight(SubSeq(s, 1, Len(s) - 1)) ELSE s

Trim(s) ==
    TrimRight(TrimLeft(s))

\* /^\d+$/.test(s)
IsDigits(s) ==
    /\ s # << >>
    /\ \A i \in DOMAIN s : s[i] \in DigitChars

(***************************************************************************)
(* Date.parse for the two ISO 8601 forms YYYY-MM-DD and                    *)
(* YYYY-MM-DDTHH:MM:SSZ (both UTC); any other string is not a date (NaN).  *)
(* The value is [sec, ms]: the epoch milliseconds are sec * 1000 + ms.     *)
(***************************************************************************)
IsLeapYear(y) ==
    (y % 4 = 0 /\ y % 100 # 0) \/ y % 400 = 0

DaysInMonth(y, m) ==
    CASE m \in { 4, 6, 9, 11 } -> 30
      [] m = 2 -> IF IsLeapYear(y) THEN 29 ELSE 28
      [] OTHER -> 31

\* Days from 1970-01-01 to the civil date y-m-d.
DaysFromCivil(y, m, d) ==
    LET yy == IF m <= 2 THEN y - 1 ELSE y
        era == yy \div 400
        yoe == yy - era * 400
        mp == IF m > 2 THEN m - 3 ELSE m + 9
        doy == (153 * mp + 2) \div 5 + d - 1
        doe == yoe * 365 + yoe \div 4 - yoe \div 100 + doy
    IN  era * 146097 + doe - 719468

NaN == [nan |-> TRUE]

IsIsoDate(s) ==
    /\ Len(s) = 10
    /\ s[5] = "-" /\ s[8] = "-"
    /\ \A i \in { 1, 2, 3, 4, 6, 7, 9, 10 } : s[i] \in DigitChars

IsIsoTime(s) ==
    /\ Len(s) = 10
    /\ s[1] = "T" /\ s[4] = ":" /\ s[7] = ":" /\ s[10] = "Z"
    /\ \A i \in { 2, 3, 5, 6, 8, 9 } : s[i] \in DigitChars

DateParse(s) ==
    LET hasTime == Len(s) = 20
        datePart == IF Len(s) >= 10 THEN SubSeq(s, 1, 10) ELSE << >>
        timePart == IF hasTime THEN SubSeq(s, 11, 20) ELSE << >>
        y == DigitsToNat(SubSeq(datePart, 1, 4))
        m == DigitsToNat(SubSeq(datePart, 6, 7))
        d == DigitsToNat(SubSeq(datePart, 9, 10))
        hh == IF hasTime THEN DigitsToNat(SubSeq(timePart, 2, 3)) ELSE 0
        mm == IF hasTime THEN DigitsToNat(SubSeq(timePart, 5, 6)) ELSE 0
        ss == IF hasTime THEN DigitsToNat(SubSeq(timePart, 8, 9)) ELSE 0
    IN  IF /\ Len(s) \in { 10, 20 }
           /\ IsIsoDate(datePart)
           /\ hasTime => IsIsoTime(timePart)
           /\ m \in 1 .. 12 /\ d \in 1 .. DaysInMonth(y, m)
           /\ hh <= 23 /\ mm <= 59 /\ ss <= 59
        THEN [sec |-> DaysFromCivil(y, m, d) * 86400 + hh * 3600 + mm * 60 + ss, ms |-> 0]
        ELSE NaN

(***************************************************************************)
(* toUnixSeconds, server.ts lines 82-99.  The input is None (null or       *)
(* undefined), a finite number, or a string [type |-> "string", text].  A  *)
(* number is [type |-> "number", neg, digits, frac]: its sign, the digits  *)
(* of its integer part without leading zeros, and the digits after the     *)
(* decimal point without trailing zeros.  The value is None (undefined) or *)
(* Some of the seconds written in decimal.                                 *)
(***************************************************************************)
Number(neg, digits, frac) ==
    Some([type |-> "number", neg |-> neg, digits |-> digits, frac |-> frac])

\* The non-negative integer written d.
Num(d) ==
    Number(FALSE, d, << >>)

Str(s) ==
    Some([type |-> "string", text |-> s])

OneE12 ==
    << "1", "0", "0", "0", "0", "0", "0", "0", "0", "0", "0", "0", "0" >>

\* Mutant: 10^12 itself is taken for milliseconds.
Above1e12_Inclusive(digits) ==
    Len(digits) >= 13

\* n > 1e12 for n written as digits without leading zeros: 1e12 is the least
\* number of 13 digits.
Above1e12(digits) ==
    \/ Len(digits) > 13
    \/ Len(digits) = 13 /\ digits # OneE12

\* Math.floor(n > 1e12 ? n / 1000 : n) for a non-negative integer n.
SecondsOfNumber(digits) ==
    IF Above1e12(digits) THEN SubSeq(digits, 1, Len(digits) - 3) ELSE digits

\* The digits of n + 1.
RECURSIVE Increment(_)
Increment(digits) ==
    IF digits = << >> THEN << "1" >>
    ELSE LET init == SubSeq(digits, 1, Len(digits) - 1)
             d == DigitValue(digits[Len(digits)])
         IN  IF d = 9 THEN Append(Increment(init), "0")
             ELSE Append(init, DigitSeq[d + 2])

\* Math.floor(input > 1e12 ? input / 1000 : input) for a finite number.
FloorSeconds(num) ==
    IF num.neg
    THEN IF num.frac # << >> THEN << "-" >> \o Increment(num.digits)
         ELSE IF num.digits = << "0" >> THEN << "0" >>
         ELSE << "-" >> \o num.digits
    ELSE IF Above1e12(num.digits) \/ (num.digits = OneE12 /\ num.frac # << >>)
    THEN SubSeq(num.digits, 1, Len(num.digits) - 3)
    ELSE num.digits

\* Mutant: the result of Date.parse is used without the NaN test.
toUnixSeconds_NoNaNTest(input) ==
    IF input = None THEN None
    ELSE IF input[1].type = "number"
    THEN Some(FloorSeconds(input[1]))
    ELSE LET t == Trim(input[1].text)
         IN  IF t = << >> THEN None
             ELSE IF IsDigits(t) THEN Some(SecondsOfNumber(StripLeadingZeros(t)))
             ELSE IF DateParse(t) # NaN THEN Some(ToDecimal(DateParse(t).sec))
             ELSE Some(<< "N", "a", "N" >>)

toUnixSeconds(input) ==
    IF input = None THEN None
    ELSE IF input[1].type = "number"
    THEN Some(FloorSeconds(input[1]))
    ELSE LET t == Trim(input[1].text)
         IN  IF t = << >> THEN None
             ELSE IF IsDigits(t) THEN Some(SecondsOfNumber(StripLeadingZeros(t)))
             ELSE IF DateParse(t) # NaN THEN Some(ToDecimal(DateParse(t).sec))
             ELSE None

(***************************************************************************)
(* State                                                                   *)
(***************************************************************************)
VARIABLES
    categories,   \* upstream: what GET /v1/categories lists, in listing order
    feeds,        \* upstream: what GET /v1/feeds lists, in listing order
    last,         \* the completed tool call whose result the client has not yet
                  \* taken: arguments, the request sent, upstream's status and
                  \* body (listed), the handler's result; tool "none" when idle
    plain,        \* text being typed: a string without diacritics, a number's
                  \* digits, the words of a query
    marked,       \* the same string typed with diacritics; the words of a title
    inflight,     \* the tool calls running concurrently, oldest first: what
                  \* each was called with, and upstream's answer once it came
    kept,         \* what the server process holds in module scope between
                  \* calls of what it read upstream: None, nothing
    taken         \* the client's record of the calls whose results it took

vars == << categories, feeds, last, plain, marked, inflight, kept, taken >>

(***************************************************************************)
(* Bounds                                                                  *)
(***************************************************************************)
\* The upstream catalog holds at most MaxRecords categories and feeds in all.
MaxRecords == 2

\* A typed string has at most MaxLen letters, at most MaxAccents of them accented.
MaxLen == 4
MaxAccents == 1

\* s with v inserted so that it becomes element number pos.
InsertAt(s, pos, v) ==
    SubSeq(s, 1, pos - 1) \o << v >> \o SubSeq(s, pos, Len(s))

(***************************************************************************)
(* Upstream: Miniflux gains a category or a feed.  Ids are assigned in     *)
(* creation order; the place in the listing is upstream's choice.          *)
(***************************************************************************)
CreateCategory(title, pos) ==
    /\ Len(categories) + Len(feeds) < MaxRecords
    /\ categories' = InsertAt(categories, pos,
                              [id |-> Len(categories) + 1, title |-> title, user_id |-> 1])
    /\ UNCHANGED << feeds, last, plain, marked, inflight, kept, taken >>

CreateFeed(shape, pos) ==
    /\ Len(categories) + Len(feeds) < MaxRecords
    /\ feeds' = InsertAt(feeds, pos,
                         [id |-> Len(feeds) + 1, title |-> shape[1],
                          site_url |-> shape[2], feed_url |-> shape[3],
                          category |-> None])
    /\ UNCHANGED << categories, last, plain, marked, inflight, kept, taken >>

(***************************************************************************)
(* Tool calls.  apiRequest(path) issues a GET; the handler runs on what    *)
(* upstream answers.  The client issues its calls one after the other: it  *)
(* takes the result of a call (Deliver) before it makes the next.          *)
(***************************************************************************)
Idle ==
    [tool |-> "none"]

Deliver ==
    /\ last # Idle
    /\ last' = Idle
    /\ UNCHANGED << categories, feeds, plain, marked, inflight, kept, taken >>

\* Mutant: the request is issued as a DELETE.
Get_Delete(path) ==
    [method |-> "DELETE", path |-> path]

\* apiRequest(path): no init is ever passed, so fetch issues a GET.
Get(path) ==
    [method |-> "GET", path |-> path]

CategoriesPath ==
    << "/v1/categories" >>

FeedsPath ==
    << "/v1/feeds" >>

FeedPath(feed_id) ==
    << "/v1/feeds/", feed_id >>

CategoryFeedsPath(category_id) ==
    << "/v1/categories/", category_id, "/feeds" >>

(***************************************************************************)
(* Upstream serving a request.  A GET changes nothing.  A DELETE of        *)
(* /v1/feeds/{id} or /v1/categories/{id} removes that record; upstream has *)
(* no other route that the paths above could write to.                     *)
(***************************************************************************)
Deletes(request, prefix, rec) ==
    /\ request.method = "DELETE"
    /\ Len(request.path) = 2
    /\ request.path[1] = prefix
    /\ request.path[2] = rec.id

CategoriesAfter(request) ==
    SelectSeq(categories, LAMBDA c : ~Deletes(request, "/v1/categories/", c))

FeedsAfter(request) ==
    SelectSeq(feeds, LAMBDA f : ~Deletes(request, "/v1/feeds/", f))

Serve(request) ==
    /\ categories' = CategoriesAfter(request)
    /\ feeds' = FeedsAfter(request)

\* Mutant: the list parsed first is cached in module scope under its path
\* and served to the later calls.
ListRead_Cached(scope, path, body) ==
    IF \E i \in DOMAIN scope : scope[i][1] = path
    THEN [list |-> scope[CHOOSE i \in DOMAIN scope : scope[i][1] = path][2],
          scope |-> scope]
    ELSE [list |-> body, scope |-> Append(scope, << path, body >>)]

\* const categories = await json<Category[]>(res): the list a handler works
\* on is the body it has just parsed, held in a local constant; what is in
\* module scope is neither read nor written.
ListRead(scope, path, body) ==
    [list |-> body, scope |-> scope]

CallResolveCategoryId(category_name, status) ==
    /\ last = Idle
    /\ LET rd == ListRead(kept, CategoriesPath, categories)
           r == IF status = "ok"
                THEN resolveCategoryId(rd.list, category_name)
                ELSE [result |-> FetchError(status), tier |-> 0]
       IN  /\ last' = [tool |-> "resolveCategoryId",
                       query |-> category_name,
                       request |-> Get(CategoriesPath),
                       status |-> status,
                       listed |-> IF status = "ok" THEN categories ELSE << >>,
                       result |-> r.result,
                       tier |-> r.tier]
           /\ kept' = IF status = "ok" THEN rd.scope ELSE kept
    /\ Serve(Get(CategoriesPath))
    /\ UNCHANGED << plain, marked, inflight, taken >>

CallResolveFeedId(feed_query, status) ==
    /\ last = Idle
    /\ LET rd == ListRead(kept, FeedsPath, feeds)
           r == IF status = "ok"
                THEN resolveFeedId(rd.list, feed_query)
                ELSE [result |-> FetchError(status), tier |-> 0]
       IN  /\ last' = [tool |-> "resolveFeedId",
                       query |-> feed_query,
                       request |-> Get(FeedsPath),
                       status |-> status,
                       listed |-> IF status = "ok" THEN feeds ELSE << >>,
                       result |-> r.result,
                       tier |-> r.tier]
           /\ kept' = IF status = "ok" THEN rd.scope ELSE kept
    /\ Serve(Get(FeedsPath))
    /\ UNCHANGED << plain, marked, inflight, taken >>

Init ==
    /\ categories = << >>
    /\ feeds = << >>
    /\ last = Idle
    /\ plain = << >>
    /\ marked = << >>
    /\ inflight = << >>
    /\ kept = None
    /\ taken = << >>

Next ==
    \/ \E title \in CategoryTitles, pos \in 1 .. (Len(categories) + 1) :
           CreateCategory(title, pos)
    \/ \E shape \in FeedShapes, pos \in 1 .. (Len(feeds) + 1) :
           CreateFeed(shape, pos)
    \/ \E q \in Queries, status \in UpstreamStatuses :
           CallResolveCategoryId(q, status)
    \/ \E q \in Queries, status \in UpstreamStatuses :
           CallResolveFeedId(q, status)
    \/ Deliver

Spec == Init /\ [][Next]_vars

(***************************************************************************)
(* Diacritics.  A title is typed twice, letter by letter: plain without    *)
(* accents, marked with some letters accented, either as the letter        *)
(* followed by a combining mark or as the precomposed character.  The      *)
(* title is then created upstream in one spelling and resolved with the    *)
(* other.                                                                  *)
(***************************************************************************)
TypedLetters == { "C", "a", "f", "e" }

Cafe == << "C", "a", "f", "e" >>
CafeAcute == << "C", "a", "f", EAcute >>

\* The spellings of letter c with an acute accent.
AccentedSpellings(c) ==
    { << c, CombAcute >> } \cup (IF c = "e" THEN { << EAcute >> } ELSE { })
                          \cup (IF c = "E" THEN { << CapEAcute >> } ELSE { })

AccentCount(s) ==
    Cardinality({ i \in DOMAIN s : s[i] \in { CombAcute, EAcute, CapEAcute } })

TypeLetter(c) ==
    /\ categories = << >>
    /\ Len(plain) < MaxLen
    /\ plain' = Append(plain, c)
    /\ marked' = Append(marked, c)
    /\ UNCHANGED << categories, feeds, last, inflight, kept, taken >>

TypeAccentedLetter(c, spelling) ==
    /\ categories = << >>
    /\ Len(plain) < MaxLen
    /\ AccentCount(marked) < MaxAccents
    /\ plain' = Append(plain, c)
    /\ marked' = marked \o spelling
    /\ UNCHANGED << categories, feeds, last, inflight, kept, taken >>

NextDiacritics ==
    \/ \E c \in TypedLetters : TypeLetter(c)
    \/ \E c \in TypedLetters : \E spelling \in AccentedSpellings(c) :
           TypeAccentedLetter(c, spelling)
    \/ \E title \in { plain, marked } :
           categories = << >> /\ CreateCategory(title, 1)
    \/ \E q \in { plain, marked } :
           categories # << >> /\ CallResolveCategoryId(q, "ok")
    \/ Deliver

SpecDiacritics == Init /\ [][NextDiacritics]_vars

(***************************************************************************)
(* searchEntries, server.ts lines 533-585.  The arguments are a function   *)
(* whose domain is the set of the keys the caller supplied.  The query     *)
(* string (URLSearchParams) is the sequence of its <<name, value>> pairs   *)
(* in the order the handler sets them; the path is the sequence of the     *)
(* parts of the template it is built from.                                 *)
(***************************************************************************)
Supplied(args, key) ==
    key \in DOMAIN args

TimeKeys ==
    << "before", "after", "published_before", "published_after",
       "changed_before", "changed_after" >>

ArgKeys ==
    { "category_id", "feed_id", "search", "status", "starred", "limit",
      "offset", "order", "direction", "before_entry_id", "after_entry_id" }
        \cup Range(TimeKeys)

StatusRead == << "r", "e", "a", "d" >>
StatusUnread == << "u", "n", "r", "e", "a", "d" >>
StatusRemoved == << "r", "e", "m", "o", "v", "e", "d" >>
ValidStatuses == { StatusRead, StatusUnread, StatusRemoved }

PublishedAt == << "p", "u", "b", "l", "i", "s", "h", "e", "d", "_", "a", "t" >>
Desc == << "d", "e", "s", "c" >>

\* s.split(',')
RECURSIVE SplitComma(_, _)
SplitComma(s, cur) ==
    IF s = << >> THEN << cur >>
    ELSE IF Head(s) = "," THEN << cur >> \o SplitComma(Tail(s), << >>)
    ELSE SplitComma(Tail(s), Append(cur, Head(s)))

IsValidStatus(st) ==
    st \in ValidStatuses

\* args.status.split(',').map(s => s.trim()).filter(...)
Statuses(text) ==
    LET parts == SplitComma(text, << >>)
        trimmed == [i \in DOMAIN parts |-> Trim(parts[i])]
    IN  SelectSeq(trimmed, IsValidStatus)

DefaultLimit == 20

\* Mutant: any supplied limit is passed on as it is.
LimitValue_AsSupplied(args) ==
    IF Supplied(args, "limit") THEN args.limit ELSE DefaultLimit

\* typeof args.limit === "number" && args.limit > 0 ? args.limit : 20
LimitValue(args) ==
    IF Supplied(args, "limit") /\ args.limit > 0 THEN args.limit ELSE DefaultLimit

\* typeof args.offset === "number" && args.offset > 0 ? args.offset : 0
OffsetNum(args) ==
    IF Supplied(args, "offset") /\ args.offset > 0 THEN args.offset ELSE 0

\* The pair one time bound contributes to the query string, if any.
TimeParam(args, key) ==
    LET ts == toUnixSeconds(IF Supplied(args, key) THEN Str(args[key]) ELSE None)
    IN  IF ts # None THEN << << key, ts[1] >> >> ELSE << >>

RECURSIVE TimeParams(_, _)
TimeParams(args, keys) ==
    IF keys = << >> THEN << >>
    ELSE TimeParam(args, Head(keys)) \o TimeParams(args, Tail(keys))

BoolText(b) ==
    IF b THEN << "t", "r", "u", "e" >> ELSE << "f", "a", "l", "s", "e" >>

SearchParams(args) ==
    (IF Supplied(args, "search") /\ args.search # << >>
     THEN << << "search", args.search >> >> ELSE << >>)
    \o (IF Supplied(args, "status") /\ args.status # << >>
        THEN LET statuses == Statuses(args.status)
             IN  [i \in DOMAIN statuses |-> << "status", statuses[i] >>]
        ELSE << >>)
    \o (IF Supplied(args, "starred")
        THEN << << "starred", BoolText(args.starred) >> >> ELSE << >>)
    \o (IF Supplied(args, "offset")
        THEN << << "offset", ToDecimal(args.offset) >> >> ELSE << >>)
    \o << << "limit", ToDecimal(LimitValue(args)) >> >>
    \o << << "order", IF Supplied(args, "order") THEN args.order ELSE PublishedAt >> >>
    \o << << "direction", IF Supplied(args, "direction") THEN args.direction ELSE Desc >> >>
    \o TimeParams(args, TimeKeys)
    \o (IF Supplied(args, "before_entry_id")
        THEN << << "before_entry_id", ToDecimal(args.before_entry_id) >> >> ELSE << >>)
    \o (IF Supplied(args, "after_entry_id")
        THEN << << "after_entry_id", ToDecimal(args.after_entry_id) >> >> ELSE << >>)

GlobalEntriesPath ==
    << "/v1/entries" >>

CategoryEntriesPath(category_id) ==
    << "/v1/categories/", category_id, "/entries" >>

FeedEntriesPath(feed_id) ==
    << "/v1/feeds/", feed_id, "/entries" >>

EntriesPath(args) ==
    IF Supplied(args, "category_id") /\ ~Supplied(args, "feed_id")
    THEN CategoryEntriesPath(args.category_id)
    ELSE IF Supplied(args, "feed_id") /\ ~Supplied(args, "category_id")
    THEN FeedEntriesPath(args.feed_id)
    ELSE GlobalEntriesPath

\* Mutant: a page that ends exactly at the total still announces a next page.
Page_HasMoreInclusive(args, data) ==
    LET limitNum == LimitValue(args)
        offsetNum == OffsetNum(args)
        count == Len(data.entries)
        has_more == offsetNum + count <= data.total
    IN  [total |-> data.total,
         entries |-> data.entries,
         limit |-> limitNum,
         offset |-> offsetNum,
         next_offset |-> IF has_more THEN Some(offsetNum + count) ELSE None,
         has_more |-> has_more]

\* The page descriptor the handler computes from upstream's body, which
\* always carries the entries array.
\* Mutant: next_offset is the offset of the call itself.
Page_NoAdvance(args, data) ==
    LET limitNum == LimitValue(args)
        offsetNum == OffsetNum(args)
        count == Len(data.entries)
        has_more == offsetNum + count < data.total
    IN  [total |-> data.total,
         entries |-> data.entries,
         limit |-> limitNum,
         offset |-> offsetNum,
         next_offset |-> IF has_more THEN Some(offsetNum) ELSE None,
         has_more |-> has_more]

Page(args, data) ==
    LET limitNum == LimitValue(args)
        offsetNum == OffsetNum(args)
        count == Len(data.entries)
        has_more == offsetNum + count < data.total
    IN  [total |-> data.total,
         entries |-> data.entries,
         limit |-> limitNum,
         offset |-> offsetNum,
         next_offset |-> IF has_more THEN Some(offsetNum + count) ELSE None,
         has_more |-> has_more]

searchEntries(args, status, data) ==
    IF status = "ok" THEN Success(Page(args, data)) ELSE FetchError(status)

(***************************************************************************)
(* Upstream's answer to an entries request: total counts the entries that  *)
(* match the filter, and the page holds those from the offset on, limit at *)
(* most.  A negative offset counts as none.  Entries are named by rank.    *)
(***************************************************************************)
Min(a, b) == IF a < b THEN a ELSE b
Max(a, b) == IF a > b THEN a ELSE b

EntriesResponse(total, limit, offset) ==
    LET from == Max(0, offset)
        count == Min(limit, Max(0, total - from))
    IN  [total |-> total, entries |-> [i \in 1 .. count |-> [id |-> from + i]]]

\* Bounds of the search calls.
MaxSupplied == 2
MaxTotal == 3

Totals ==
    (0 .. MaxTotal) \cup { 25, 30 }

Digits1704067200 == << "1", "7", "0", "4", "0", "6", "7", "2", "0", "0" >>
IsoMidnight2024 ==
    << "2", "0", "2", "4", "-", "0", "1", "-", "0", "1",
       "T", "0", "0", ":", "0", "0", ":", "0", "0", "Z" >>

TimeInputs ==
    << << >>,
       << "s", "o", "o", "n" >>,
       Digits1704067200,
       << " " >> \o Digits1704067200 \o << "0", "0", "0" >>,
       IsoMidnight2024 >>

\* The values a caller supplies for each key.
ArgValues(key) ==
    CASE key = "category_id" -> << 0, 3 >>
      [] key = "feed_id" -> << 5 >>
      [] key = "search" -> << << >>, << "a", "i" >> >>
      [] key = "status" ->
             << << >>, StatusRead,
                << " " >> \o StatusUnread \o << ",", "n", "e", "w", "," >> \o StatusRead >>
      [] key = "starred" -> << TRUE, FALSE >>
      [] key = "limit" -> << -1, 0, 2 >>
      [] key = "offset" -> << -1, 0, 2, 20 >>
      [] key = "order" -> << << "i", "d" >> >>
      [] key = "direction" -> << << "a", "s", "c" >> >>
      [] key \in { "before_entry_id", "after_entry_id" } -> << 7 >>
      [] OTHER -> TimeInputs

SuppliedKeySets ==
    { S \in SUBSET ArgKeys : Cardinality(S) <= MaxSupplied }

ArgsOver(S) ==
    { [key \in S |-> ArgValues(key)[c[key]]] :
        c \in { c \in [S -> 1 .. 5] : \A key \in S : c[key] <= Len(ArgValues(key)) } }

CallSearchEntries(args, status, total) ==
    /\ last = Idle
    /\ LET data == IF status = "ok"
                   THEN EntriesResponse(total, LimitValue(args),
                                        IF Supplied(args, "offset") THEN args.offset ELSE 0)
                   ELSE [total |-> 0, entries |-> << >>]
       IN  last' = [tool |-> "searchEntries",
                    args |-> args,
                    request |-> Get(EntriesPath(args)) @@ [params |-> SearchParams(args)],
                    status |-> status,
                    listed |-> data,
                    result |-> searchEntries(args, status, data)]
    /\ Serve(Get(EntriesPath(args)))
    /\ UNCHANGED << plain, marked, inflight, kept, taken >>

NextSearch ==
    \/ /\ last = Idle
       /\ \E S \in SuppliedKeySets : \E args \in ArgsOver(S) :
            \E status \in UpstreamStatuses :
              \E total \in IF status = "ok" THEN Totals ELSE { 0 } :
                CallSearchEntries(args, status, total)
    \/ Deliver

SpecSearch == Init /\ [][NextSearch]_vars

(***************************************************************************)
(* Time inputs.  A run of digits is typed into plain, and toUnixSeconds is *)
(* applied to it as a number (with a sign and a fraction), as a string     *)
(* (bare or padded with blanks), to the other strings a caller passes, and *)
(* to an absent value.  last records the application.                      *)
(***************************************************************************)
MaxDigits == 14
MaxOnes == 2

Ones(s) ==
    Len(SelectSeq(s, LAMBDA c : c = "1"))

TypeDigit(d) ==
    /\ last = Idle
    /\ Len(plain) < MaxDigits
    /\ d = "1" => Ones(plain) < MaxOnes
    /\ plain' = Append(plain, d)
    /\ UNCHANGED << categories, feeds, last, marked, inflight, kept, taken >>

TypeEpoch ==
    /\ last = Idle
    /\ plain = << >>
    /\ plain' = Digits1704067200
    /\ UNCHANGED << categories, feeds, last, marked, inflight, kept, taken >>

Fractions ==
    { << >>, << "5" >> }

ApplyToUnixSeconds(input) ==
    /\ last = Idle
    /\ last' = [tool |-> "toUnixSeconds",
                input |-> input,
                result |-> toUnixSeconds(input)]
    /\ UNCHANGED << categories, feeds, plain, marked, inflight, kept, taken >>

\* plain is how a number's integer part is written: no leading zero.
IsNumeral(s) ==
    /\ s # << >>
    /\ Len(s) = 1 \/ Head(s) # "0"

NextTime ==
    \/ \E d \in { "0", "1" } : TypeDigit(d)
    \/ TypeEpoch
    \/ \E neg \in BOOLEAN, frac \in Fractions :
           IsNumeral(plain) /\ ApplyToUnixSeconds(Number(neg, plain, frac))
    \/ \E text \in { plain, << " " >> \o plain \o << " ", " " >> } \cup Range(TimeInputs) :
           ApplyToUnixSeconds(Str(text))
    \/ ApplyToUnixSeconds(None)
    \/ Deliver

SpecTime == Init /\ [][NextTime]_vars

(***************************************************************************)
(* The other tools, server.ts lines 103-125 and 382-452: listCategories,   *)
(* searchFeedsByCategory, getFeedDetails, listFeeds.  Each handler is      *)
(* given its arguments, upstream's status and the body it parsed.          *)
(***************************************************************************)
CategoriesWithCountsPath ==
    << "/v1/categories?counts=true" >>

\* const path = counts ? ... : ...; counts is None when not supplied.
ListCategoriesPath(counts) ==
    IF counts = Some(TRUE) THEN CategoriesWithCountsPath ELSE CategoriesPath

listCategories(status, body) ==
    IF status = "ok" THEN Success([categories |-> body]) ELSE FetchError(status)

listFeeds(status, body) ==
    IF status = "ok" THEN Success([feeds |-> body]) ELSE FetchError(status)

getFeedDetails(status, body) ==
    IF status = "ok" THEN Success([feed |-> body]) ELSE FetchError(status)

\* The filter of searchFeedsByCategory: String.prototype.toLowerCase, no
\* diacritics stripped.
FeedContains(f, q) ==
    \/ Includes(toLowerCase(f.title), q)
    \/ Includes(toLowerCase(OrEmpty(f.site_url)), q)
    \/ Includes(toLowerCase(OrEmpty(f.feed_url)), q)

searchFeedsByCategory(query, status, body) ==
    IF status # "ok" THEN FetchError(status)
    ELSE IF query = None \/ query = Some(<< >>) THEN Success([feeds |-> body])
    ELSE Success([feeds |-> SelectSeq(body, LAMBDA f : FeedContains(f, toLowerCase(query[1])))])

(***************************************************************************)
(* Upstream's bodies.  A feed belongs to the category a user moved it to.  *)
(***************************************************************************)
FeedsOfCategory(category_id) ==
    SelectSeq(feeds, LAMBDA f : f.category = Some(category_id))

CategoriesBody(path) ==
    IF path = CategoriesWithCountsPath
    THEN [i \in DOMAIN categories |->
            [id |-> categories[i].id, title |-> categories[i].title,
             user_id |-> categories[i].user_id,
             feed_count |-> Len(FeedsOfCategory(categories[i].id)),
             total_unread |-> 0]]
    ELSE categories

HasCategory(category_id) ==
    \E i \in DOMAIN categories : categories[i].id = category_id

HasFeed(feed_id) ==
    \E i \in DOMAIN feeds : feeds[i].id = feed_id

FeedWithId(feed_id) ==
    feeds[CHOOSE i \in DOMAIN feeds : feeds[i].id = feed_id]

\* Upstream: a user moves a feed that has no category yet into one.
MoveFeed(i, category_id) ==
    /\ last = Idle
    /\ i \in DOMAIN feeds
    /\ feeds[i].category = None
    /\ HasCategory(category_id)
    /\ feeds' = [feeds EXCEPT ![i].category = Some(category_id)]
    /\ UNCHANGED << categories, last, plain, marked, inflight, kept, taken >>

\* A completed call of one of these tools.
Completed(tool, args, request, status, body, result) ==
    [tool |-> tool, args |-> args, request |-> request, status |-> status,
     listed |-> body, result |-> result]

CallListCategories(counts, status) ==
    /\ last = Idle
    /\ LET request == Get(ListCategoriesPath(counts))
           body == IF status = "ok" THEN CategoriesBody(request.path) ELSE << >>
       IN  /\ last' = Completed("listCategories", [counts |-> counts], request, status,
                                body, listCategories(status, body))
           /\ Serve(request)
    /\ UNCHANGED << plain, marked, inflight, kept, taken >>

CallListFeeds(status) ==
    /\ last = Idle
    /\ LET request == Get(FeedsPath)
           body == IF status = "ok" THEN feeds ELSE << >>
       IN  /\ last' = Completed("listFeeds", << >>, request, status,
                                body, listFeeds(status, body))
           /\ Serve(request)
    /\ UNCHANGED << plain, marked, inflight, kept, taken >>

CallSearchFeedsByCategory(category_id, query, status) ==
    /\ last = Idle
    /\ status = "ok" => HasCategory(category_id)
    /\ LET request == Get(CategoryFeedsPath(category_id))
           body == IF status = "ok" THEN FeedsOfCategory(category_id) ELSE << >>
       IN  /\ last' = Completed("searchFeedsByCategory",
                                [category_id |-> category_id, query |-> query],
                                request, status, body,
                                searchFeedsByCategory(query, status, body))
           /\ Serve(request)
    /\ UNCHANGED << plain, marked, inflight, kept, taken >>

CallGetFeedDetails(feed_id, status) ==
    /\ last = Idle
    /\ status = "ok" => HasFeed(feed_id)
    /\ LET request == Get(FeedPath(feed_id))
           body == IF status = "ok" THEN << FeedWithId(feed_id) >> ELSE << >>
       IN  /\ last' = Completed("getFeedDetails", [feed_id |-> feed_id], request, status,
                                body,
                                getFeedDetails(status, IF status = "ok" THEN body[1] ELSE body))
           /\ Serve(request)
    /\ UNCHANGED << plain, marked, inflight, kept, taken >>

(***************************************************************************)
(* The server: the seven tools called one after the other while upstream's *)
(* catalog changes between the calls.                                      *)
(***************************************************************************)
ScopeKeySets ==
    SUBSET { "category_id", "feed_id" }

NextServer ==
    \/ Next
    \/ \E i \in 1 .. MaxRecords, category_id \in 1 .. MaxRecords :
           MoveFeed(i, category_id)
    \/ \E counts \in { None, Some(TRUE), Some(FALSE) }, status \in UpstreamStatuses :
           CallListCategories(counts, status)
    \/ \E status \in UpstreamStatuses : CallListFeeds(status)
    \/ \E category_id \in 1 .. MaxRecords, query \in { None, Some(<< >>), Some(Tech) } :
         \E status \in UpstreamStatuses :
           CallSearchFeedsByCategory(category_id, query, status)
    \/ \E feed_id \in 1 .. MaxRecords, status \in UpstreamStatuses :
           CallGetFeedDetails(feed_id, status)
    \/ /\ last = Idle
       /\ \E S \in ScopeKeySets : \E args \in ArgsOver(S) :
            \E status \in UpstreamStatuses :
              \E total \in IF status = "ok" THEN { 0, MaxTotal } ELSE { 0 } :
                CallSearchEntries(args, status, total)

SpecServer == Init /\ [][NextServer]_vars

(***************************************************************************)
(* Resolving while the catalog changes.  The client resolves the same      *)
(* names again and again, recording each result it takes, while upstream   *)
(* gains categories and feeds between the calls.                           *)
(***************************************************************************)
MaxTaken == 2

TakeResult ==
    /\ last # Idle
    /\ Len(taken) < MaxTaken
    /\ taken' = Append(taken, last)
    /\ last' = Idle
    /\ UNCHANGED << categories, feeds, plain, marked, inflight, kept >>

NextFresh ==
    \/ \E title \in { TechNews, TechNewsDaily }, pos \in 1 .. (Len(categories) + 1) :
           CreateCategory(title, pos)
    \/ \E pos \in 1 .. (Len(feeds) + 1) :
           CreateFeed(<< AICodeKingSpaced, None, None >>, pos)
    \/ \E status \in UpstreamStatuses : CallResolveCategoryId(TechNews, status)
    \/ \E status \in UpstreamStatuses : CallResolveFeedId(AICodeKing, status)
    \/ TakeResult

SpecFresh == Init /\ [][NextFresh]_vars

(***************************************************************************)
(* Calls in flight together.  Every handler is an async function: it runs  *)
(* to its await of the upstream response, is resumed when the response     *)
(* arrives, and returns.  Between these steps the handlers of other calls  *)
(* run.  The catalog does not change.                                      *)
(***************************************************************************)
\* What upstream answers to the request of a call.
Response(tool, input, status) ==
    [status |-> status,
     body |-> IF status # "ok" THEN << >>
              ELSE IF tool = "resolveCategoryId" THEN categories
              ELSE IF tool = "resolveFeedId" THEN feeds
              ELSE EntriesResponse(MaxTotal, LimitValue(input),
                                   IF Supplied(input, "offset") THEN input.offset ELSE 0)]

RequestOf(tool, input) ==
    IF tool = "resolveCategoryId" THEN Get(CategoriesPath)
    ELSE IF tool = "resolveFeedId" THEN Get(FeedsPath)
    ELSE Get(EntriesPath(input)) @@ [params |-> SearchParams(input)]

\* Mutant: res is a variable of the module; a handler resumed while another
\* call's response is there works on that one.
Await_ModuleScope(scope, response) ==
    [res |-> IF scope = None THEN response ELSE scope[1],
     scope |-> Some(response)]

\* const res = await apiRequest(...): the response is bound to a constant of
\* this invocation of the handler.
Await(scope, response) ==
    [res |-> response, scope |-> scope]

\* The rest of a handler, from the response it holds.
Handle(tool, input, res) ==
    IF res.status # "ok" THEN FetchError(res.status)
    ELSE IF tool = "resolveCategoryId" THEN resolveCategoryId(res.body, input).result
    ELSE IF tool = "resolveFeedId" THEN resolveFeedId(res.body, input).result
    ELSE searchEntries(input, res.status, res.body)

Begin(tool, input) ==
    /\ Len(inflight) + Len(taken) < MaxTaken
    /\ inflight' = Append(inflight,
                          [id |-> Len(inflight) + Len(taken) + 1,
                           tool |-> tool,
                           input |-> input,
                           request |-> RequestOf(tool, input),
                           status |-> "pending",
                           res |-> None])
    /\ Serve(Get(RequestOf(tool, input).path))
    /\ UNCHANGED << last, plain, marked, kept, taken >>

Answer(i, status) ==
    /\ inflight[i].res = None
    /\ LET call == inflight[i]
           a == Await(kept, Response(call.tool, call.input, status))
       IN  /\ inflight' = [inflight EXCEPT ![i].status = status,
                                           ![i].res = Some(a.res)]
           /\ kept' = a.scope
    /\ UNCHANGED << categories, feeds, last, plain, marked, taken >>

Finish(i) ==
    /\ inflight[i].res # None
    /\ LET call == inflight[i]
       IN  taken' = Append(taken,
                           [id |-> call.id,
                            tool |-> call.tool,
                            input |-> call.input,
                            request |-> call.request,
                            status |-> call.status,
                            result |-> Handle(call.tool, call.input, call.res[1])])
    /\ inflight' = [j \in 1 .. (Len(inflight) - 1) |->
                        IF j < i THEN inflight[j] ELSE inflight[j + 1]]
    /\ UNCHANGED << categories, feeds, last, plain, marked, kept >>

ConcurrentCatalogs ==
    { << [id |-> 1, title |-> TechNews, user_id |-> 1] >>,
      << [id |-> 1, title |-> TechNewsDaily, user_id |-> 1],
         [id |-> 2, title |-> TechNews, user_id |-> 1] >> }

InitConcurrent ==
    /\ categories \in ConcurrentCatalogs
    /\ feeds = << [id |-> 1, title |-> AICodeKingSpaced, site_url |-> None,
                   feed_url |-> None, category |-> None] >>
    /\ last = Idle
    /\ plain = << >>
    /\ marked = << >>
    /\ inflight = << >>
    /\ kept = None
    /\ taken = << >>

NextConcurrent ==
    \/ \E category_name \in { TechNews, Tech } : Begin("resolveCategoryId", category_name)
    \/ \E feed_query \in { AICodeKing } : Begin("resolveFeedId", feed_query)
    \/ \E args \in { [limit |-> 2], [offset |-> 2], [limit |-> 2, offset |-> 2] } :
           Begin("searchEntries", args)
    \/ \E i \in DOMAIN inflight, status \in UpstreamStatuses : Answer(i, status)
    \/ \E i \in DOMAIN inflight : Finish(i)

SpecConcurrent == InitConcurrent /\ [][NextConcurrent]_vars

(***************************************************************************)
(* resolveId(query, limit?), the unified fuzzy resolver.  Its handler is   *)
(* not part of server.ts; it is modelled from sections 4.2 and 4.4 of the  *)
(* specification, on the normalisation helpers of server.ts.               *)
(***************************************************************************)
\* The numeric-id hint: present when the whole trimmed query is decimal
\* digits.
NumericIdHint(query) ==
    IF IsDigits(Trim(query)) THEN Some(DigitsToNat(Trim(query))) ELSE None

\* The tiers of the scorer, by their score.
TierScores == << 100, 90, 70, 50, 30 >>

TierSatisfied(score, query, hint, cand) ==
    CASE score = 100 -> Lower(query) = Lower(cand.title)
      [] score = 90 -> hint # None /\ hint[1] = cand.id
      [] score = 70 -> /\ Collapsed(query) = Collapsed(cand.title)
                       /\ Collapsed(query) # << >>
      [] score = 50 -> tokensAreSubset(Tokens(query), Tokens(cand.title))
      [] score = 30 -> query # << >> /\ Includes(Lower(cand.title), Lower(query))
      [] OTHER -> FALSE

\* Mutant: the tiers are tried from the weakest up.
Score_LowestTier(query, hint, cand) ==
    LET hits == { k \in DOMAIN TierScores : TierSatisfied(TierScores[k], query, hint, cand) }
    IN  IF hits = { } THEN 0
        ELSE TierScores[CHOOSE k \in hits : \A j \in hits : j <= k]

\* The scoring rule: the tiers are tried from the strongest down and the
\* first satisfied one gives the score.
Score(query, hint, cand) ==
    LET hits == { k \in DOMAIN TierScores : TierSatisfied(TierScores[k], query, hint, cand) }
    IN  IF hits = { } THEN 0
        ELSE TierScores[CHOOSE k \in hits : \A j \in hits : k <= j]

ScoredCandidate(query, hint, rec) ==
    [id |-> rec.id, title |-> rec.title, score |-> Score(query, hint, rec)]

\* Mutant: a candidate needs more than the substring score to be kept.
Retained_Above30(query, hint, list) ==
    SelectSeq([i \in DOMAIN list |-> ScoredCandidate(query, hint, list[i])],
              LAMBDA c : c.score > 30 \/ (hint # None /\ hint[1] = c.id))

\* Candidates with score >= 30 are kept, and an exact numeric-id hit always.
Retained(query, hint, list) ==
    SelectSeq([i \in DOMAIN list |-> ScoredCandidate(query, hint, list[i])],
              LAMBDA c : c.score >= 30 \/ (hint # None /\ hint[1] = c.id))

\* The UTF-16 code unit of a character of the model's alphabet.
CodeUnit(c) ==
    CASE c \in DigitChars -> 48 + DigitValue(c)
      [] c \in UpperChars -> 64 + (CHOOSE i \in DOMAIN UpperSeq : UpperSeq[i] = c)
      [] c \in LowerChars -> 96 + (CHOOSE i \in DOMAIN LowerSeq : LowerSeq[i] = c)
      [] c = " " -> 32
      [] c = "-" -> 45
      [] c = "." -> 46
      [] c = "/" -> 47
      [] c = CapEAcute -> 201
      [] c = EAcute -> 233
      [] c = OStroke -> 248
      [] c = CombAcute -> 769
      [] OTHER -> 127

\* a < b for strings, lexicographic on code units.
RECURSIVE TitleLess(_, _)
TitleLess(a, b) ==
    IF b = << >> THEN FALSE
    ELSE IF a = << >> THEN TRUE
    ELSE IF Head(a) # Head(b) THEN CodeUnit(Head(a)) < CodeUnit(Head(b))
    ELSE TitleLess(Tail(a), Tail(b))

\* Mutant: the title decides before the score.
Before_TitleFirst(x, y) ==
    \/ TitleLess(x.title, y.title)
    \/ x.title = y.title /\ x.score > y.score

\* Score descending, then title ascending.
Before(x, y) ==
    \/ x.score > y.score
    \/ x.score = y.score /\ TitleLess(x.title, y.title)

RECURSIVE InsertCandidate(_, _)
InsertCandidate(x, sorted) ==
    IF sorted = << >> THEN << x >>
    ELSE IF Before(Head(sorted), x)
    THEN << Head(sorted) >> \o InsertCandidate(x, Tail(sorted))
    ELSE << x >> \o sorted

RECURSIVE SortCandidates(_)
SortCandidates(cands) ==
    IF cands = << >> THEN << >>
    ELSE InsertCandidate(Head(cands), SortCandidates(Tail(cands)))

\* The limit per kind: 10 unless the caller supplies one, 25 at most.
DefaultLimitPerKind == 10
MaxLimitPerKind == 25

LimitPerKind(limit) ==
    Min(IF limit = None THEN DefaultLimitPerKind ELSE limit[1], MaxLimitPerKind)

\* Mutant: the flag is raised as soon as a collection fills the limit.
IsTruncated_AtLimit(cats, fds, limitNum) ==
    Len(cats) >= limitNum \/ Len(fds) >= limitNum

IsTruncated(cats, fds, limitNum) ==
    Len(cats) > limitNum \/ Len(fds) > limitNum

Truncate(cands, limitNum) ==
    SubSeq(cands, 1, Min(Len(cands), limitNum))

\* Mutant: categories win whenever there is one, whatever the feeds.
InferredKind_CategoryFirst(cats, fds) ==
    IF cats # << >> THEN Some("category")
    ELSE IF fds # << >> THEN Some("feed")
    ELSE None

InferredKind(cats, fds) ==
    IF cats # << >> /\ fds = << >> THEN Some("category")
    ELSE IF cats = << >> /\ fds # << >> THEN Some("feed")
    ELSE None

\* Mutant: feeds are looked at before categories.
ExactIdMatch_FeedsFirst(hint, cats, fds) ==
    IF hint = None THEN None
    ELSE IF \E i \in DOMAIN fds : fds[i].id = hint[1]
    THEN Some([kind |-> "feed", id |-> hint[1]])
    ELSE IF \E i \in DOMAIN cats : cats[i].id = hint[1]
    THEN Some([kind |-> "category", id |-> hint[1]])
    ELSE None

ExactIdMatch(hint, cats, fds) ==
    IF hint = None THEN None
    ELSE IF \E i \in DOMAIN cats : cats[i].id = hint[1]
    THEN Some([kind |-> "category", id |-> hint[1]])
    ELSE IF \E i \in DOMAIN fds : fds[i].id = hint[1]
    THEN Some([kind |-> "feed", id |-> hint[1]])
    ELSE None

resolveFuzzy(query, limit, cats, fds) ==
    LET hint == NumericIdHint(query)
        limitNum == LimitPerKind(limit)
        keptCategories == SortCandidates(Retained(query, hint, cats))
        keptFeeds == SortCandidates(Retained(query, hint, fds))
    IN  [inferredKind |-> InferredKind(keptCategories, keptFeeds),
         exactIdMatch |-> ExactIdMatch(hint, cats, fds),
         categories |-> Truncate(keptCategories, limitNum),
         feeds |-> Truncate(keptFeeds, limitNum),
         truncated |-> IsTruncated(keptCategories, keptFeeds, limitNum)]

\* A read that has not completed is << >>; a completed one holds upstream's
\* answer.
Pending == [categories |-> None, feeds |-> None]

\* Mutant: the handler goes on as soon as one read has completed.
Joined_Race(reads) ==
    reads.categories # None \/ reads.feeds # None

\* The join: the handler is resumed when both reads have completed.
Joined(reads) ==
    reads.categories # None /\ reads.feeds # None

ReadOk(read) ==
    read # None /\ read[1].status = "ok"

ReadBody(read) ==
    IF ReadOk(read) THEN read[1].body ELSE << >>

\* The outcome of the joined reads: a failed read makes the whole resolution
\* a fetch failure.
resolveId(query, limit, reads) ==
    IF \E which \in { "categories", "feeds" } :
           reads[which] # None /\ reads[which][1].status # "ok"
    THEN Failure([error |-> "FETCH_FAILED"])
    ELSE Success(resolveFuzzy(query, limit,
                              ReadBody(reads.categories), ReadBody(reads.feeds)))

\* Both reads are issued before the handler suspends.
FuzzyBegin(query, limit) ==
    /\ last = Idle
    /\ inflight = << >>
    /\ inflight' = << [tool |-> "resolveId",
                       query |-> query,
                       limit |-> limit,
                       requests |-> << Get(CategoriesPath), Get(FeedsPath) >>,
                       reads |-> Pending,
                       order |-> << >>] >>
    /\ categories' = CategoriesAfter(Get(CategoriesPath))
    /\ feeds' = FeedsAfter(Get(FeedsPath))
    /\ UNCHANGED << last, plain, marked, kept, taken >>

ReadCompletes(which, status) ==
    /\ inflight # << >>
    /\ inflight[1].tool = "resolveId"
    /\ inflight[1].reads[which] = None
    /\ LET body == IF status # "ok" THEN << >>
                   ELSE IF which = "categories" THEN categories ELSE feeds
       IN  inflight' = [inflight EXCEPT
                            ![1].reads[which] = Some([status |-> status, body |-> body]),
                            ![1].order = Append(@, which)]
    /\ UNCHANGED << categories, feeds, last, plain, marked, kept, taken >>

FuzzyJoin ==
    /\ inflight # << >>
    /\ inflight[1].tool = "resolveId"
    /\ Joined(inflight[1].reads)
    /\ LET call == inflight[1]
       IN  last' = [tool |-> "resolveId",
                    query |-> call.query,
                    limit |-> call.limit,
                    requests |-> call.requests,
                    reads |-> call.reads,
                    order |-> call.order,
                    result |-> resolveId(call.query, call.limit, call.reads)]
    /\ inflight' = << >>
    /\ UNCHANGED << categories, feeds, plain, marked, kept, taken >>

One == << "1" >>
Two == << "2" >>
SpaceTwo == << Space, "2" >>

FuzzyTitles == { TechNews, TechNewsDashed, TechNewsDaily, Two }
FuzzyShapes == { << AICodeKingSpaced, None, None >>, << TechNews, None, None >> }
FuzzyQueries == { TechNewsLower, Tech, Ews, AICodeKing, Rss, One, Two, SpaceTwo, << >> }
FuzzyLimits == { None, Some(1) }

NextFuzzy ==
    \/ \E title \in FuzzyTitles, pos \in 1 .. (Len(categories) + 1) :
           CreateCategory(title, pos)
    \/ \E shape \in FuzzyShapes, pos \in 1 .. (Len(feeds) + 1) :
           CreateFeed(shape, pos)
    \/ \E query \in FuzzyQueries, limit \in FuzzyLimits : FuzzyBegin(query, limit)
    \/ \E which \in { "categories", "feeds" }, status \in UpstreamStatuses :
           ReadCompletes(which, status)
    \/ FuzzyJoin
    \/ Deliver

SpecFuzzy == Init /\ [][NextFuzzy]_vars

(***************************************************************************)
(* The fuzzy resolver on long listings: upstream holds up to MaxListed     *)
(* categories and MaxListedFeeds feeds that all match the query.           *)
(***************************************************************************)
MaxListed == 30
MaxListedFeeds == 2

AppendCategory(title) ==
    /\ last = Idle
    /\ inflight = << >>
    /\ Len(categories) < MaxListed
    /\ categories' = Append(categories,
                            [id |-> Len(categories) + 1, title |-> title, user_id |-> 1])
    /\ UNCHANGED << feeds, last, plain, marked, inflight, kept, taken >>

AppendFeed(title) ==
    /\ last = Idle
    /\ inflight = << >>
    /\ Len(feeds) < MaxListedFeeds
    /\ feeds' = Append(feeds,
                       [id |-> Len(feeds) + 1, title |-> title, site_url |-> None,
                        feed_url |-> None, category |-> None])
    /\ UNCHANGED << categories, last, plain, marked, inflight, kept, taken >>

TruncateLimits == { None, Some(1), Some(10), Some(25), Some(26) }

NextTruncate ==
    \/ AppendCategory(TechNews)
    \/ AppendFeed(TechNewsDaily)
    \/ \E limit \in TruncateLimits : FuzzyBegin(Tech, limit)
    \/ \E which \in { "categories", "feeds" } : ReadCompletes(which, "ok")
    \/ FuzzyJoin
    \/ Deliver

SpecTruncate == Init /\ [][NextTruncate]_vars

(***************************************************************************)
(* The token-subset tier on typed text.  A query and a title are typed     *)
(* word by word, each word after a separator; plain holds the words of the *)
(* query and marked the words of the title.  A word is written with the    *)
(* token it stands for, if any.                                            *)
(***************************************************************************)
MaxWords == 2

TypedWords ==
    { [sep |-> << " " >>, text |-> << "T", "e", "c", "h" >>,
       token |-> Some(<< "t", "e", "c", "h" >>)],
      [sep |-> << "-" >>, text |-> << "n", "e", "w", "s" >>,
       token |-> Some(<< "n", "e", "w", "s" >>)],
      [sep |-> << " " >>, text |-> << "N", "e", "w", "s" >>,
       token |-> Some(<< "n", "e", "w", "s" >>)],
      [sep |-> << ",", " " >>, text |-> << "-", "-" >>, token |-> None] }

RECURSIVE WrittenOut(_)
WrittenOut(words) ==
    IF words = << >> THEN << >>
    ELSE Head(words).sep \o Head(words).text \o WrittenOut(Tail(words))

TypeQueryWord(w) ==
    /\ last = Idle
    /\ Len(plain) < MaxWords
    /\ plain' = Append(plain, w)
    /\ UNCHANGED << categories, feeds, last, marked, inflight, kept, taken >>

TypeTitleWord(w) ==
    /\ last = Idle
    /\ Len(marked) < MaxWords
    /\ marked' = Append(marked, w)
    /\ UNCHANGED << categories, feeds, last, plain, inflight, kept, taken >>

\* Lines 170-172 (300-302 in resolveFeedId): the test of the token-subset
\* tier on one record.
ApplyTokenTier ==
    /\ last = Idle
    /\ last' = [tool |-> "tokensAreSubset",
                queryWords |-> plain,
                titleWords |-> marked,
                hit |-> CategoryTokenHit([id |-> 1, title |-> WrittenOut(marked)],
                                         QueryForms(WrittenOut(plain)))]
    /\ UNCHANGED << categories, feeds, plain, marked, inflight, kept, taken >>

NextTokens ==
    \/ \E w \in TypedWords : TypeQueryWord(w)
    \/ \E w \in TypedWords : TypeTitleWord(w)
    \/ ApplyTokenTier
    \/ Deliver

SpecTokens == Init /\ [][NextTokens]_vars

(***************************************************************************)
(* Resolving a category by a query that has no letter or digit in it.      *)
(***************************************************************************)
Dashes == << "-", "-" >>

BlankQueries ==
    { << >>, << " " >>, Dashes, << OStroke >> }

NextBlank ==
    \/ \E title \in { TechNews, TechNewsDaily, Dashes }, pos \in 1 .. (Len(categories) + 1) :
           CreateCategory(title, pos)
    \/ \E category_name \in BlankQueries \cup { Tech }, status \in UpstreamStatuses :
           CallResolveCategoryId(category_name, status)
    \/ Deliver

SpecBlank == Init /\ [][NextBlank]_vars

(***************************************************************************)
(* Resolving a feed by its URL, and by a query without letter or digit,    *)
(* among feeds of which some lack a URL and one has a title without ASCII  *)
(* letter or digit.                                                        *)
(***************************************************************************)
TechIoTitle == << "T", "e", "c", "h", " ", "i", "o" >>
Techio == << "t", "e", "c", "h", "i", "o" >>

UrlShapes ==
    { << AICodeKingSpaced, None, None >>,
      << TechNews, Some(TechIo), None >>,
      << << OStroke >>, Some(TechIo), Some(TechIoRss) >>,
      << TechIoTitle, Some(TechIoRss), Some(TechIoRss) >> }

UrlQueries ==
    { TechIo, Techio, Tech, << >>, << " " >>, << OStroke, OStroke >> }

NextUrls ==
    \/ \E shape \in UrlShapes, pos \in 1 .. (Len(feeds) + 1) : CreateFeed(shape, pos)
    \/ \E feed_query \in UrlQueries, status \in UpstreamStatuses :
           CallResolveFeedId(feed_query, status)
    \/ Deliver

SpecUrls == Init /\ [][NextUrls]_vars

(***************************************************************************)
(* Paging.  A caller searches, takes each page and, while the page says    *)
(* has_more, issues the same search again from next_offset.  Upstream      *)
(* answers every call and the entries that match do not change during a    *)
(* search.  taken holds the page the caller took last.                     *)
(***************************************************************************)
PagingKeySets == SUBSET { "limit", "offset" }

FirstPage(args, total) ==
    /\ IF taken = << >> THEN TRUE ELSE ~taken[1].result.content.has_more
    /\ CallSearchEntries(args, "ok", total)

TakePage ==
    /\ last # Idle
    /\ taken' = << last >>
    /\ last' = Idle
    /\ UNCHANGED << categories, feeds, plain, marked, inflight, kept >>

WithOffset(args, offset) ==
    [key \in DOMAIN args \cup { "offset" } |->
         IF key = "offset" THEN offset ELSE args[key]]

NextPage ==
    /\ taken # << >>
    /\ taken[1].result.content.has_more
    /\ CallSearchEntries(WithOffset(taken[1].args, taken[1].result.content.next_offset[1]),
                         "ok", taken[1].listed.total)

NextPaging ==
    \/ /\ last = Idle
       /\ \E S \in PagingKeySets : \E args \in ArgsOver(S) : \E total \in Totals :
              FirstPage(args, total)
    \/ TakePage
    \/ NextPage

SpecPaging ==
    Init /\ [][NextPaging]_vars /\ WF_vars(TakePage) /\ WF_vars(NextPage)

(***************************************************************************)
(* Vocabulary of the properties                                            *)
(***************************************************************************)
\* The last call was a resolver call that upstream answered.
ResolverAnswered ==
    /\ last.tool \in { "resolveCategoryId", "resolveFeedId" }
    /\ last.status = "ok"

ForCategories ==
    last.tool = "resolveCategoryId"

IdKey ==
    IF ForCategories THEN "category_id" ELSE "feed_id"

AmbiguousCode ==
    IF ForCategories THEN "AMBIGUOUS_CATEGORY" ELSE "AMBIGUOUS_FEED"

NotFoundCode ==
    IF ForCategories THEN "CATEGORY_NOT_FOUND" ELSE "FEED_NOT_FOUND"

\* The four outcomes of a resolver call, told apart by the shape of the result.
IsMatched(r) ==
    /\ DOMAIN r = { "content" }
    /\ DOMAIN r.content = { IdKey }
    /\ r.content[IdKey] \in Nat \ { 0 }

IsAmbiguous(r) ==
    /\ DOMAIN r = { "content", "isError" }
    /\ r.isError = TRUE
    /\ DOMAIN r.content = { "error", "candidates" }
    /\ r.content.error = AmbiguousCode
    /\ Len(r.content.candidates) > 1

IsNotFound(r) ==
    /\ DOMAIN r = { "content", "isError" }
    /\ r.isError = TRUE
    /\ r.content = [error |-> NotFoundCode]

IsFetchFailure(r) ==
    DOMAIN r = { "threw" }

\* Record rec of the listing hits at tier k for the query forms q.
TierHit(k, rec, q) ==
    IF ForCategories
    THEN CASE k = 1 -> CategoryExact(rec, q)
           [] k = 2 -> CategoryLowerEq(rec, q)
           [] k = 3 -> CategoryCollapsedEq(rec, q)
           [] k = 4 -> CategoryTokenHit(rec, q)
           [] k = 5 -> CategoryPartialHit(rec, q)
    ELSE CASE k = 1 -> FeedExact(rec, q)
           [] k = 2 -> FeedLowerEq(rec, q)
           [] k = 3 -> FeedCollapsedEq(rec, q)
           [] k = 4 -> FeedTokenHit(rec, q)
           [] k = 5 -> FeedPartialHit(rec, q)

\* The tiers at which some listed record hits, and the records hitting at tier k
\* in listing order.
HitTiers ==
    { k \in 1 .. 5 : \E i \in DOMAIN last.listed :
                         TierHit(k, last.listed[i], QueryForms(last.query)) }

HitsAt(k) ==
    SelectSeq(last.listed, LAMBDA rec : TierHit(k, rec, QueryForms(last.query)))

FirstHitTier ==
    CHOOSE k \in HitTiers : \A j \in HitTiers : k <= j

\* The ids a result hands back: the matched id, or the ids of the candidates.
ReturnedIds ==
    IF IsMatched(last.result) THEN { last.result.content[IdKey] }
    ELSE IF IsAmbiguous(last.result)
    THEN { last.result.content.candidates[i].id : i \in DOMAIN last.result.content.candidates }
    ELSE { }

ListedWithId(id) ==
    last.listed[CHOOSE i \in DOMAIN last.listed : last.listed[i].id = id]

\* What the candidate list of an Ambiguous result must show of a record.
Shown(rec) ==
    IF ForCategories
    THEN [id |-> rec.id, title |-> rec.title]
    ELSE [id |-> rec.id, title |-> rec.title,
          site_url |-> rec.site_url, feed_url |-> rec.feed_url]

(***************************************************************************)
(* Properties                                                              *)
(***************************************************************************)
\* C1: the tiers are consulted in the order exact, case-insensitive, collapsed,
\* token-subset, substring, and the first tier with a hit decides: the result
\* is produced at that tier and every id it hands back (matched, or listed as
\* an ambiguous candidate) belongs to a record that hits at that tier; with no
\* hit at any tier the result is not-found.
C1_FirstHitTierDecides ==
    ResolverAnswered =>
        IF HitTiers = { }
        THEN last.tier = 0 /\ ReturnedIds = { }
        ELSE /\ last.tier = FirstHitTier
             /\ ReturnedIds # { }
             /\ \A id \in ReturnedIds :
                    TierHit(FirstHitTier, ListedWithId(id), QueryForms(last.query))

\* C1 witness: a record hitting only at a later tier is listed before the one
\* that hits at the deciding tier.
C1_Witness ==
    /\ ResolverAnswered
    /\ Len(last.listed) > 1
    /\ HitTiers # { }
    /\ FirstHitTier \in 1 .. 4
    /\ \E k \in HitTiers :
           /\ k > FirstHitTier
           /\ ~TierHit(FirstHitTier, last.listed[1], QueryForms(last.query))
           /\ TierHit(k, last.listed[1], QueryForms(last.query))

\* C2: a query equal to the title of exactly one listed record (whatever else
\* is listed) is Matched with that record's id.
C2_ExactTitleMatched ==
    ResolverAnswered /\ last.query # << >> =>
        \A i \in DOMAIN last.listed :
            ( /\ last.listed[i].title = last.query
              /\ \A j \in DOMAIN last.listed :
                     last.listed[j].title = last.query => j = i )
            => /\ IsMatched(last.result)
               /\ last.result.content[IdKey] = last.listed[i].id

\* C2 witness: the record titled like the query is listed after another record
\* that matches the query case-insensitively.
C2_Witness ==
    /\ ResolverAnswered
    /\ Len(last.listed) > 1
    /\ last.listed[1].title # last.query
    /\ Lower(last.listed[1].title) = Lower(last.query)
    /\ last.listed[2].title = last.query
    /\ IsMatched(last.result)

\* C3: when nothing hits at tiers 1-3, tier 4 and then tier 5 decide by their
\* number of hits: none moves on (not-found after tier 5), one is Matched with
\* that record's id, several are Ambiguous with exactly the records that hit,
\* in listing order, each shown with id and title and, for feeds, both URLs.
C3_TokenAndPartialTiers ==
    ResolverAnswered /\ HitTiers \cap { 1, 2, 3 } = { } =>
        LET deciding == IF HitsAt(4) # << >> THEN HitsAt(4) ELSE HitsAt(5)
        IN  CASE Len(deciding) = 0 ->
                   last.result = [content |-> [error |-> NotFoundCode], isError |-> TRUE]
              [] Len(deciding) = 1 ->
                   /\ IsMatched(last.result)
                   /\ last.result.content[IdKey] = deciding[1].id
              [] OTHER ->
                   /\ IsAmbiguous(last.result)
                   /\ last.result.content.candidates
                          = [i \in DOMAIN deciding |-> Shown(deciding[i])]

\* C3 witness: an ambiguous feed result at the substring tier.
C3_Witness ==
    /\ ResolverAnswered
    /\ ~ForCategories
    /\ HitTiers = { 5 }
    /\ IsAmbiguous(last.result)
    /\ \E i \in DOMAIN last.result.content.candidates :
           last.result.content.candidates[i].feed_url # None

\* C4 as stated: with the categories "Tech News" and "Tech News Daily" listed,
\* the query "Tech News" is Ambiguous with both ids.
C4_AsStated ==
    ( /\ ResolverAnswered
      /\ ForCategories
      /\ last.query = TechNews
      /\ Len(last.listed) = 2
      /\ { last.listed[i].title : i \in DOMAIN last.listed } = { TechNews, TechNewsDaily } )
    => /\ IsAmbiguous(last.result)
       /\ ReturnedIds = { last.listed[i].id : i \in DOMAIN last.listed }

\* C4 amended: with those two categories listed, the query "Tech News" is
\* Matched at the exact tier with the id of "Tech News"; both titles do
\* satisfy token-subset, and a query that equals neither title at tiers 1-3,
\* "News Tech", is Ambiguous at tier 4 with both ids.
C4_ExactBeatsTokenSubset ==
    ( /\ ResolverAnswered
      /\ ForCategories
      /\ Len(last.listed) = 2
      /\ { last.listed[i].title : i \in DOMAIN last.listed } = { TechNews, TechNewsDaily } )
    => /\ \A i \in DOMAIN last.listed :
              CategoryTokenHit(last.listed[i], QueryForms(TechNews))
       /\ last.query = TechNews =>
              /\ last.tier = 1
              /\ IsMatched(last.result)
              /\ \E i \in DOMAIN last.listed :
                     /\ last.listed[i].title = TechNews
                     /\ last.result.content.category_id = last.listed[i].id
       /\ last.query = NewsTech =>
              /\ last.tier = 4
              /\ IsAmbiguous(last.result)
              /\ ReturnedIds = { last.listed[i].id : i \in DOMAIN last.listed }

\* C4 witness: the two categories are listed, "Tech News Daily" first, and the
\* query is "Tech News".
C4_Witness ==
    /\ ResolverAnswered
    /\ ForCategories
    /\ last.query = TechNews
    /\ Len(last.listed) = 2
    /\ last.listed[1].title = TechNewsDaily
    /\ last.listed[2].title = TechNews
    /\ IsMatched(last.result)

\* C5: when the deciding tier is one of tiers 1-3, however many records hit at
\* it, the result is Matched with the id of the first of them in listing
\* order; it is never Ambiguous and no later tier is consulted.
C5_FirstListedWins ==
    ResolverAnswered /\ HitTiers \cap { 1, 2, 3 } # { } =>
        /\ IsMatched(last.result)
        /\ last.tier = FirstHitTier
        /\ last.result.content[IdKey] = HitsAt(FirstHitTier)[1].id

\* C5 witness: two records hit at the deciding tier and the first listed of
\* them has the larger id.
C5_Witness ==
    /\ ResolverAnswered
    /\ HitTiers \cap { 1, 2, 3 } # { }
    /\ Len(HitsAt(FirstHitTier)) > 1
    /\ HitsAt(FirstHitTier)[1].id > HitsAt(FirstHitTier)[2].id
    /\ IsMatched(last.result)

\* C7: with a feed titled "AI Code King" listed, the query "AICodeKing" is
\* Matched; when no feed hits at tier 1 or 2 the match is made at the collapsed
\* tier, with the first listed feed whose collapsed form equals the query's,
\* which is the "AI Code King" feed when no other feed collapses to it.
C7_PunctuationInvariance ==
    ( /\ ResolverAnswered
      /\ ~ForCategories
      /\ last.query = AICodeKing
      /\ \E i \in DOMAIN last.listed : last.listed[i].title = AICodeKingSpaced )
    => /\ IsMatched(last.result)
       /\ HitTiers \cap { 1, 2 } = { } =>
              /\ last.tier = 3
              /\ last.result.content.feed_id = HitsAt(3)[1].id
              /\ HitsAt(3)[1].title = AICodeKingSpaced

\* C7 witness: the "AI Code King" feed is listed after a feed that does not
\* match, and is matched at tier 3.
C7_Witness ==
    /\ ResolverAnswered
    /\ ~ForCategories
    /\ last.query = AICodeKing
    /\ Len(last.listed) > 1
    /\ last.listed[2].title = AICodeKingSpaced
    /\ last.tier = 3
    /\ last.result.content.feed_id = last.listed[2].id

\* C8: a resolver call ends in exactly one of Matched, Ambiguous, NotFound and
\* fetch failure: a Matched result carries one id and no error flag, Ambiguous
\* and NotFound carry the error flag with the code of the kind resolved, and
\* the call fails to fetch exactly when upstream did not answer.
C8_ExactlyOneOutcome ==
    last.tool \in { "resolveCategoryId", "resolveFeedId" } =>
        /\ Cardinality({ o \in { "matched", "ambiguous", "notfound", "fetch" } :
               CASE o = "matched" -> IsMatched(last.result)
                 [] o = "ambiguous" -> IsAmbiguous(last.result)
                 [] o = "notfound" -> IsNotFound(last.result)
                 [] o = "fetch" -> IsFetchFailure(last.result) }) = 1
        /\ IsFetchFailure(last.result) <=> last.status # "ok"

\* C8 witness: a feed call that ended Ambiguous.
C8_Witness ==
    /\ last.tool = "resolveFeedId"
    /\ IsAmbiguous(last.result)
    /\ last.result.content.error = "AMBIGUOUS_FEED"

\* C9 as stated: when the upstream read fails or answers a non-success status,
\* the resolver returns an error payload with the code FETCH_FAILED and the
\* error flag.
C9_AsStated ==
    ( /\ last.tool \in { "resolveCategoryId", "resolveFeedId" }
      /\ last.status # "ok" )
    => /\ DOMAIN last.result = { "content", "isError" }
       /\ last.result.isError = TRUE
       /\ last.result.content.error = "FETCH_FAILED"

C9_Witness ==
    /\ last.tool \in { "resolveCategoryId", "resolveFeedId" }
    /\ last.status = "http_error"
    /\ last.result = Thrown("HTTP")
    /\ categories # << >>

\* C6: collapse("Cafe" with e-acute) equals collapse("Cafe"); two spellings of
\* a string that differ only by combining diacritics (a combining mark added
\* after a letter, or a letter replaced by its precomposed accented form) are
\* equal under toLower and under collapseNonAlnum; and a collection holding
\* only a title in one spelling resolves a query in the other spelling to
\* Matched with that entry's id.
C6_DiacriticInvariance ==
    /\ collapseNonAlnum(CafeAcute) = collapseNonAlnum(Cafe)
    /\ toLower(plain) = toLower(marked)
    /\ collapseNonAlnum(plain) = collapseNonAlnum(marked)
    /\ ( /\ ResolverAnswered
         /\ Len(last.listed) = 1
         /\ { last.query, last.listed[1].title } = { plain, marked } )
       => /\ IsMatched(last.result)
          /\ last.result.content.category_id = last.listed[1].id

\* C6 witness: the only category is titled "Cafe" with a precomposed e-acute
\* and the query "Cafe" has been resolved to it.
C6_Witness ==
    /\ plain = Cafe
    /\ marked = CafeAcute
    /\ ResolverAnswered
    /\ last.query = Cafe
    /\ Len(last.listed) = 1
    /\ last.listed[1].title = CafeAcute
    /\ last.result = [content |-> [category_id |-> last.listed[1].id]]

\* C10 as stated: when both category_id and feed_id are supplied, the request
\* goes to the category-scoped entries endpoint.
C10_AsStated ==
    (/\ last.tool = "searchEntries"
     /\ Supplied(last.args, "category_id")
     /\ Supplied(last.args, "feed_id"))
        => last.request.path = CategoryEntriesPath(last.args.category_id)

\* C10, what the handler does instead: a category_id alone selects the
\* category-scoped endpoint, a feed_id alone the feed-scoped endpoint, and when
\* both are supplied neither is used: the request goes to the global
\* /v1/entries endpoint and carries no scope.
C10_BothScopesGiveNone ==
    last.tool = "searchEntries" =>
        LET cat == Supplied(last.args, "category_id")
            feed == Supplied(last.args, "feed_id")
        IN  /\ (cat /\ feed) => last.request.path = GlobalEntriesPath
            /\ (cat /\ ~feed) =>
                   last.request.path = CategoryEntriesPath(last.args.category_id)
            /\ (feed /\ ~cat) =>
                   last.request.path = FeedEntriesPath(last.args.feed_id)
            /\ (~cat /\ ~feed) => last.request.path = GlobalEntriesPath
            /\ \A i \in DOMAIN last.request.params :
                   last.request.params[i][1] \notin { "category_id", "feed_id" }

C10_Witness ==
    /\ last.tool = "searchEntries"
    /\ last.status = "ok"
    /\ Supplied(last.args, "category_id")
    /\ Supplied(last.args, "feed_id")
    /\ last.request.path = GlobalEntriesPath
    /\ last.result.content.total > 0

\* C11: the page descriptor of an answered searchEntries call has
\* has_more = (offset + returned_count < total) and next_offset = offset +
\* returned_count when has_more, null otherwise, where offset is the
\* descriptor's offset (the supplied offset when positive, else 0) and
\* returned_count the number of entries upstream returned, 0 included; and
\* (30, 0, 20) gives has_more with next_offset 20, (25, 20, 5) gives no more.
C11_PageDescriptor ==
    /\ LET p == Page(<< >>, EntriesResponse(30, 20, 0))
       IN  Len(p.entries) = 20 /\ p.has_more /\ p.next_offset = Some(20)
    /\ LET p == Page([offset |-> 20], EntriesResponse(25, 20, 20))
       IN  Len(p.entries) = 5 /\ ~p.has_more /\ p.next_offset = None
    /\ (last.tool = "searchEntries" /\ last.status = "ok") =>
           LET p == last.result.content
               returned_count == Len(last.listed.entries)
               offset == IF Supplied(last.args, "offset") /\ last.args.offset > 0
                         THEN last.args.offset ELSE 0
           IN  /\ p.offset = offset
               /\ p.total = last.listed.total
               /\ p.has_more = (offset + returned_count < last.listed.total)
               /\ p.next_offset = IF p.has_more THEN Some(offset + returned_count)
                                  ELSE None

C11_Witness ==
    /\ last.tool = "searchEntries"
    /\ last.status = "ok"
    /\ last.listed.total = 30
    /\ Len(last.listed.entries) = 20
    /\ last.result.content.offset = 0
    /\ last.result.content.has_more
    /\ last.result.content.next_offset = Some(20)

\* A page past the end: nothing returned, nothing more.
C11_WitnessEmptyPage ==
    /\ last.tool = "searchEntries"
    /\ last.status = "ok"
    /\ last.listed.total > 0
    /\ Len(last.listed.entries) = 0
    /\ ~last.result.content.has_more

\* The value of the digits of s before its last k, and of its last k digits:
\* s denotes High(s, k) * 10^k + Low(s, k).
High(s, k) ==
    IF Len(s) > k THEN DigitsToNat(SubSeq(s, 1, Len(s) - k)) ELSE 0

Low(s, k) ==
    IF Len(s) > k THEN DigitsToNat(SubSeq(s, Len(s) - k + 1, Len(s)))
    ELSE DigitsToNat(s)

\* The number num exceeds 10^12 = 10^4 * 10^8.
ExceedsE12(num) ==
    /\ ~num.neg
    /\ \/ High(num.digits, 8) > 10000
       \/ /\ High(num.digits, 8) = 10000
          /\ Low(num.digits, 8) > 0 \/ num.frac # << >>

\* C12: toUnixSeconds maps a finite number greater than 10^12 to
\* floor(n / 1000) and any other finite number to floor(n); a digit-only
\* string, padded with blanks or not, gives the result of the number it
\* denotes; and the ISO string 2024-01-01T00:00:00Z, the number 1704067200 and
\* the number 1704067200000 all give 1704067200.
C12_NormalizeTime ==
    /\ toUnixSeconds(Str(IsoMidnight2024)) = Some(Digits1704067200)
    /\ toUnixSeconds(Num(Digits1704067200)) = Some(Digits1704067200)
    /\ toUnixSeconds(Num(Digits1704067200 \o << "0", "0", "0" >>)) = Some(Digits1704067200)
    /\ (last.tool = "toUnixSeconds" /\ last.input # None) =>
         LET in == last.input[1]
         IN  IF in.type = "number"
             THEN /\ last.result # None
                  /\ LET r == last.result[1]
                         m == IF Head(r) = "-" THEN Tail(r) ELSE r
                     IN  IF ExceedsE12(in)
                         THEN \* r = floor(n / 1000)
                              /\ IsDigits(r) /\ IsNumeral(r)
                              /\ High(r, 5) = High(in.digits, 8)
                              /\ Low(r, 5) = Low(in.digits, 8) \div 1000
                         ELSE IF ~in.neg \/ in.frac = << >>
                         THEN \* r = the integer part, signed
                              /\ m = in.digits
                              /\ (Head(r) = "-") = (in.neg /\ in.digits # << "0" >>)
                         ELSE \* r = -(integer part + 1)
                              /\ Head(r) = "-" /\ IsDigits(m) /\ IsNumeral(m)
                              /\ IF Low(in.digits, 8) + 1 < 100000000
                                 THEN /\ Low(m, 8) = Low(in.digits, 8) + 1
                                      /\ High(m, 8) = High(in.digits, 8)
                                 ELSE /\ Low(m, 8) = 0
                                      /\ High(m, 8) = High(in.digits, 8) + 1
             ELSE IsDigits(Trim(in.text)) =>
                      \E numeral \in { SubSeq(Trim(in.text), k, Len(Trim(in.text))) :
                                         k \in 1 .. Len(Trim(in.text)) } :
                          /\ IsNumeral(numeral)
                          /\ High(numeral, 8) = High(Trim(in.text), 8)
                          /\ Low(numeral, 8) = Low(Trim(in.text), 8)
                          /\ last.result = toUnixSeconds(Num(numeral))

C12_Witness ==
    /\ last.tool = "toUnixSeconds"
    /\ last.input = Num(Digits1704067200 \o << "0", "0", "0" >>)
    /\ last.result = Some(Digits1704067200)

\* A time input that is empty, blank, or neither a run of digits nor a date.
Unparseable(text) ==
    \/ Trim(text) = << >>
    \/ ~IsDigits(Trim(text)) /\ DateParse(Trim(text)) = NaN

ParamNames(params) ==
    { params[i][1] : i \in DOMAIN params }

Without(args, key) ==
    [k \in DOMAIN args \ { key } |-> args[k]]

\* C13: for each of the six time bounds of a searchEntries call, when the
\* input is absent, empty or unparseable the query string has no such field,
\* the request (path and every other field) is the one the call without that
\* input sends, and the call ends as that call does: with the page when
\* upstream answers.
C13_UnparseableTimeOmitted ==
    last.tool = "searchEntries" =>
        \A key \in Range(TimeKeys) :
            (~Supplied(last.args, key) \/ Unparseable(last.args[key])) =>
                /\ key \notin ParamNames(last.request.params)
                /\ last.request.params = SearchParams(Without(last.args, key))
                /\ last.request.path = EntriesPath(Without(last.args, key))
                /\ last.result = searchEntries(Without(last.args, key), last.status, last.listed)
                /\ last.status = "ok" => DOMAIN last.result = { "content" }

C13_Witness ==
    /\ last.tool = "searchEntries"
    /\ last.status = "ok"
    /\ Supplied(last.args, "before")
    /\ last.args.before = << "s", "o", "o", "n" >>
    /\ Supplied(last.args, "after")
    /\ ParamNames(last.request.params) = { "limit", "order", "direction", "after" }
    /\ DOMAIN last.result = { "content" }

\* A step in which a tool call runs: the client was idle and now has a result.
ToolCallStep ==
    last = Idle /\ last' # Idle

\* C14: the server is read-only: in every step in which one of the seven tools
\* runs, the request it issues upstream is a GET and upstream's categories and
\* feeds are after the call what they were before it.
C14_ReadOnly ==
    [][ToolCallStep =>
          /\ last'.request.method = "GET"
          /\ categories' = categories
          /\ feeds' = feeds]_vars

C14_Witness ==
    /\ last.tool = "getFeedDetails"
    /\ last.status = "ok"
    /\ last.result.content.feed.id = 1
    /\ Len(feeds) = 2
    /\ categories = << >>

\* What a resolver returns for a query on a list.
Resolved(tool, list, query) ==
    IF tool = "resolveCategoryId"
    THEN resolveCategoryId(list, query).result
    ELSE resolveFeedId(list, query).result

\* C15: nothing read upstream is kept in the server between calls, every
\* resolve call issues its own list request, and the outcome of every call the
\* client has recorded, whatever was resolved before it and however the
\* catalog has changed since, is the resolver's outcome on the list upstream
\* returned to that call.
C15_FreshReadPerCall ==
    /\ kept = None
    /\ \A i \in DOMAIN taken :
           LET call == taken[i]
           IN  /\ call.request = Get(IF call.tool = "resolveCategoryId"
                                     THEN CategoriesPath ELSE FeedsPath)
               /\ call.status = "ok" =>
                      call.result = Resolved(call.tool, call.listed, call.query)
               /\ call.status # "ok" => IsFetchFailure(call.result)

\* Two recorded calls with the same query, the catalog changed in between:
\* the first found nothing, the second finds the category created since.
C15_Witness ==
    /\ Len(taken) >= 2
    /\ taken[1].tool = "resolveCategoryId" /\ taken[2].tool = "resolveCategoryId"
    /\ taken[1].query = taken[2].query
    /\ taken[1].status = "ok" /\ taken[2].status = "ok"
    /\ taken[1].listed # taken[2].listed
    /\ IsNotFound(taken[1].result)
    /\ IsMatched(taken[2].result)

\* C16: calls in flight together share nothing that changes.  Whatever the
\* interleaving of resolve and search calls against the catalog, every call
\* that has returned has returned what its handler returns on upstream's
\* answer to that call alone, whether or not other calls failed; nothing is
\* left in module scope.
C16_CallsIndependent ==
    /\ kept = None
    /\ \A i \in DOMAIN taken :
           LET call == taken[i]
           IN  call.result =
                   Handle(call.tool, call.input,
                          Response(call.tool, call.input, call.status))

\* A resolve call began first and returned last; the search call that ran
\* inside it failed; the resolve call matched.
C16_Witness ==
    /\ Len(taken) >= 2
    /\ taken[1].id = 2 /\ taken[1].tool = "searchEntries"
    /\ IsFetchFailure(taken[1].result)
    /\ taken[2].id = 1 /\ taken[2].tool = "resolveCategoryId"
    /\ taken[2].result \in { Success([category_id |-> id]) : id \in 1 .. 2 }

\* A resolveId call has returned; both reads succeeded.
FuzzyAnswered ==
    last.tool = "resolveId"

FuzzyResolved ==
    /\ FuzzyAnswered
    /\ ReadOk(last.reads.categories)
    /\ ReadOk(last.reads.feeds)

FetchFailed ==
    Failure([error |-> "FETCH_FAILED"])

Collections == { "categories", "feeds" }

\* The records the call read in a collection, and the candidates it returned.
ListedIn(which) ==
    Range(ReadBody(last.reads[which]))

ReturnedIn(which) ==
    Range(last.result.content[which])

\* C17: both reads of a resolveId call are issued before either completes,
\* the call returns only when both have completed, and when either has
\* failed, whichever completed first, the outcome is the fetch failure, with
\* no candidate of the read that succeeded.
C17_ReadsJoined ==
    /\ \A i \in DOMAIN inflight :
           inflight[i].requests = << Get(CategoriesPath), Get(FeedsPath) >>
    /\ FuzzyAnswered =>
           /\ \A which \in Collections : last.reads[which] # None
           /\ Range(last.order) = Collections
           /\ (\E which \in Collections : ~ReadOk(last.reads[which])) =>
                  /\ last.result = FetchFailed
                  /\ \A which \in Collections : which \notin DOMAIN last.result.content
           /\ (\A which \in Collections : ReadOk(last.reads[which])) =>
                  DOMAIN last.result = { "content" }

\* The feeds read completed first and succeeded with a feed the query
\* matches; the categories read failed after it: fetch failure.
C17_Witness ==
    /\ FuzzyAnswered
    /\ last.order = << "feeds", "categories" >>
    /\ ReadOk(last.reads.feeds)
    /\ Retained(last.query, NumericIdHint(last.query), ReadBody(last.reads.feeds)) # << >>
    /\ ~ReadOk(last.reads.categories)
    /\ last.result = FetchFailed

\* The scores of the tiers a record satisfies for the query of the call.
SatisfiedScores(rec) ==
    { sc \in Range(TierScores) :
        TierSatisfied(sc, last.query, NumericIdHint(last.query), rec) }

ScoreOf(rec) ==
    Score(last.query, NumericIdHint(last.query), rec)

\* C18: the score of every record read is 0, 30, 50, 70, 90 or 100; it is 0
\* when no tier is satisfied and otherwise the greatest score among the
\* satisfied tiers; every returned candidate carries the score of its record.
C18_ScoreIsHighestTier ==
    FuzzyResolved =>
        \A which \in Collections :
            /\ \A rec \in ListedIn(which) :
                   /\ ScoreOf(rec) \in { 0, 30, 50, 70, 90, 100 }
                   /\ SatisfiedScores(rec) = { } => ScoreOf(rec) = 0
                   /\ SatisfiedScores(rec) # { } =>
                          /\ ScoreOf(rec) \in SatisfiedScores(rec)
                          /\ \A sc \in SatisfiedScores(rec) : sc <= ScoreOf(rec)
            /\ \A c \in ReturnedIn(which) :
                   \E rec \in ListedIn(which) :
                       rec.id = c.id /\ rec.title = c.title /\ c.score = ScoreOf(rec)

\* A returned category satisfies the exact-fold, collapsed, token-subset and
\* substring tiers at once and scores 100; another satisfies the token-subset
\* and substring tiers only and scores 50.
C18_Witness ==
    /\ FuzzyResolved
    /\ \E c \in ReturnedIn("categories") :
           /\ c.score = 100
           /\ { 100, 70, 50, 30 } \subseteq SatisfiedScores(c)
    /\ \E c \in ReturnedIn("categories") :
           /\ c.score = 50
           /\ SatisfiedScores(c) = { 50, 30 }

\* The numeric-id hint of the call equals the id of the record.
IsIdHit(rec) ==
    LET hint == NumericIdHint(last.query)
    IN  hint # None /\ hint[1] = rec.id

Appears(which, rec) ==
    \E c \in ReturnedIn(which) : c.id = rec.id

NoZeroScoreReturned ==
    \A which \in Collections :
        \A c \in ReturnedIn(which) : c.score >= 30 \/ IsIdHit(c)

CallLimit ==
    IF last.limit = None THEN 10
    ELSE IF last.limit[1] > 25 THEN 25 ELSE last.limit[1]

RetainedIn(which) ==
    Retained(last.query, NumericIdHint(last.query), ReadBody(last.reads[which]))

\* C20: each returned collection holds the retained candidates of its own
\* collection up to the limit, 10 by default and never more than 25, and
\* truncated is true exactly when one of the two collections retained more
\* candidates than the limit; 30 retained categories at limit 10 come back as
\* 10, truncated.
C20_TruncatedPerKind ==
    FuzzyResolved =>
        /\ \A which \in Collections :
               Len(last.result.content[which]) = Min(Len(RetainedIn(which)), CallLimit)
        /\ last.result.content.truncated =
               (\E which \in Collections : Len(RetainedIn(which)) > CallLimit)
        /\ (Len(RetainedIn("categories")) = 30 /\ CallLimit = 10) =>
               /\ Len(last.result.content.categories) = 10
               /\ last.result.content.truncated

\* 30 categories match and the caller asks for 10 per kind: 10 categories
\* and both feeds are returned, truncated.
C20_Witness ==
    /\ FuzzyResolved
    /\ last.limit = Some(10)
    /\ Len(RetainedIn("categories")) = 30
    /\ Len(last.result.content.categories) = 10
    /\ Len(RetainedIn("feeds")) = 2
    /\ Len(last.result.content.feeds) = 2
    /\ last.result.content.truncated

\* Candidate x may stand in front of candidate y in a returned collection:
\* its score is greater, or the scores are equal and its title is not after.
InOrder(x, y) ==
    \/ x.score > y.score
    \/ x.score = y.score /\ ~TitleLess(y.title, x.title)

\* C21: every returned collection is in order of score descending, equal
\* scores in order of title ascending, and no retained candidate that was
\* cut would have to stand in front of a returned one.
C21_OrderedThenCut ==
    FuzzyResolved =>
        \A which \in Collections :
            LET returned == last.result.content[which]
            IN  /\ \A i \in DOMAIN returned, j \in DOMAIN returned :
                       i < j => InOrder(returned[i], returned[j])
                /\ \A c \in Range(RetainedIn(which)) :
                       ~Appears(which, c) =>
                           \A i \in DOMAIN returned : InOrder(returned[i], c)

\* Two categories of equal score come back in title order, the reverse of
\* the order upstream listed them in.
C21_Witness ==
    /\ FuzzyResolved
    /\ Len(last.result.content.categories) = 2
    /\ LET returned == last.result.content.categories
           listed == ReadBody(last.reads.categories)
       IN  /\ returned[1].score = returned[2].score
           /\ TitleLess(returned[1].title, returned[2].title)
           /\ listed[1].id = returned[2].id
           /\ listed[2].id = returned[1].id

\* At limit 1 the category of the greater score is the one kept, although
\* upstream listed it last.
C21_WitnessCut ==
    /\ FuzzyResolved
    /\ Len(RetainedIn("categories")) = 2
    /\ Len(last.result.content.categories) = 1
    /\ LET listed == ReadBody(last.reads.categories)
       IN  /\ listed[2].id = last.result.content.categories[1].id
           /\ ScoreOf(listed[2]) > ScoreOf(listed[1])

\* C22: the inferred kind is category exactly when categories were returned
\* and no feed was, feed exactly when feeds were returned and no category
\* was, and unset when both or neither collection returned a candidate.
C22_InferredKind ==
    FuzzyResolved =>
        LET cats == last.result.content.categories
            fds == last.result.content.feeds
            kind == last.result.content.inferredKind
        IN  /\ kind = Some("category") <=> (cats # << >> /\ fds = << >>)
            /\ kind = Some("feed") <=> (cats = << >> /\ fds # << >>)
            /\ kind = None <=> ((cats # << >>) <=> (fds # << >>))

\* Upstream lists a category and a feed; only the feed matches the query and
\* the kind is feed.
C22_Witness ==
    /\ FuzzyResolved
    /\ ListedIn("categories") # { }
    /\ ReturnedIn("categories") = { }
    /\ ReturnedIn("feeds") # { }
    /\ last.result.content.inferredKind = Some("feed")

\* A category and a feed both match: the kind is unset.
C22_WitnessBoth ==
    /\ FuzzyResolved
    /\ ReturnedIn("categories") # { }
    /\ ReturnedIn("feeds") # { }
    /\ last.result.content.inferredKind = None

\* The ids of the records the call read in a collection.
IdsIn(which) ==
    { rec.id : rec \in ListedIn(which) }

\* C23: exactIdMatch is reported exactly when the trimmed query is all
\* digits and its value is the id of a category or of a feed the call read;
\* it names that id, as a category whenever a category has it, even if a
\* feed has it too, and as a feed otherwise.
C23_ExactIdMatch ==
    FuzzyResolved =>
        LET digits == IsDigits(Trim(last.query))
            value == IF digits THEN DigitsToNat(Trim(last.query)) ELSE 0
            match == last.result.content.exactIdMatch
        IN  /\ match # None <=>
                   (digits /\ value \in IdsIn("categories") \cup IdsIn("feeds"))
            /\ match # None =>
                   /\ match[1].id = value
                   /\ match[1].kind =
                          IF value \in IdsIn("categories") THEN "category" ELSE "feed"

\* Category 1 and feed 1 are both listed and the query is "1": the match is
\* reported as a category.
C23_Witness ==
    /\ FuzzyResolved
    /\ last.query = One
    /\ 1 \in IdsIn("categories")
    /\ 1 \in IdsIn("feeds")
    /\ last.result.content.exactIdMatch = Some([kind |-> "category", id |-> 1])

\* Only a feed has the id: the match is reported as a feed.
C23_WitnessFeed ==
    /\ FuzzyResolved
    /\ last.query = SpaceTwo
    /\ 2 \notin IdsIn("categories")
    /\ last.result.content.exactIdMatch = Some([kind |-> "feed", id |-> 2])

\* The values sent under a name in the query string of the request.
ParamValues(params, name) ==
    LET pairs == SelectSeq(params, LAMBDA pair : pair[1] = name)
    IN  [i \in DOMAIN pairs |-> pairs[i][2]]

Twenty == << "2", "0" >>

\* The arguments sent as they are, when they are supplied.
PassedWhenSupplied ==
    { "offset", "starred", "before_entry_id", "after_entry_id" }

\* C24: every searchEntries request carries exactly one limit, one order and
\* one direction: the limit is the caller's when it is greater than 0 and 20
\* otherwise, the order is the caller's or published_at, the direction the
\* caller's or desc.  offset, starred and the cursor bounds are sent when and
\* only when supplied, and search only when supplied (and not empty).
C24_DefaultsSent ==
    last.tool = "searchEntries" =>
        LET args == last.args
            params == last.request.params
        IN  /\ ParamValues(params, "limit") =
                   << IF Supplied(args, "limit") /\ args.limit > 0
                      THEN ToDecimal(args.limit) ELSE Twenty >>
            /\ ParamValues(params, "order") =
                   << IF Supplied(args, "order") THEN args.order
                      ELSE << "p", "u", "b", "l", "i", "s", "h", "e", "d", "_", "a", "t" >> >>
            /\ ParamValues(params, "direction") =
                   << IF Supplied(args, "direction") THEN args.direction
                      ELSE << "d", "e", "s", "c" >> >>
            /\ \A key \in PassedWhenSupplied :
                   key \in ParamNames(params) <=> Supplied(args, key)
            /\ "search" \in ParamNames(params) <=>
                   (Supplied(args, "search") /\ args.search # << >>)

\* The caller supplies limit 0 and nothing else: limit 20, order
\* published_at and direction desc are sent, and no offset.
C24_Witness ==
    /\ last.tool = "searchEntries"
    /\ DOMAIN last.args = { "limit" }
    /\ last.args.limit = 0
    /\ last.request.params =
           << << "limit", Twenty >>, << "order", PublishedAt >>, << "direction", Desc >> >>

\* The caller's own limit and order are sent.
C24_WitnessSupplied ==
    /\ last.tool = "searchEntries"
    /\ DOMAIN last.args = { "limit", "order" }
    /\ ParamValues(last.request.params, "limit") = << << "2" >> >>
    /\ ParamValues(last.request.params, "order") = << << "i", "d" >> >>

\* The tokens a sequence of typed words stands for, as a set.
TokenSet(words) ==
    { words[i].token[1] : i \in { i \in DOMAIN words : words[i].token # None } }

\* C25: the token-subset tier hits exactly when the query has at least one
\* token and the set of its tokens is contained in the set of the title's
\* tokens, in whatever order and however often the tokens are written; a
\* query without a token hits nothing.
C25_TokenSetContainment ==
    last.tool = "tokensAreSubset" =>
        last.hit <=> /\ TokenSet(last.queryWords) # { }
                     /\ TokenSet(last.queryWords) \subseteq TokenSet(last.titleWords)

\* The query "-news Tech" hits the title " Tech News": the tokens are in the
\* other order.
C25_Witness ==
    /\ last.tool = "tokensAreSubset"
    /\ WrittenOut(last.queryWords) =
           << "-", "n", "e", "w", "s", " ", "T", "e", "c", "h" >>
    /\ WrittenOut(last.titleWords) =
           << " ", "T", "e", "c", "h", " ", "N", "e", "w", "s" >>
    /\ last.hit

\* A query of punctuation only hits no title, not even one without tokens.
C25_WitnessNoToken ==
    /\ last.tool = "tokensAreSubset"
    /\ last.queryWords # << >>
    /\ TokenSet(last.queryWords) = { }
    /\ last.titleWords = last.queryWords
    /\ ~last.hit

\* A resolveCategoryId call has read a non-empty listing; the collapsed form
\* of its query is empty and no listed title equals the query as written,
\* folded or collapsed (an empty token list hits nothing at tier 4).
BlankQueryReachesTier5 ==
    /\ last.tool = "resolveCategoryId"
    /\ last.status = "ok"
    /\ last.listed # << >>
    /\ collapseNonAlnum(last.query) = << >>
    /\ \A i \in DOMAIN last.listed :
           /\ last.listed[i].title # last.query
           /\ toLower(last.listed[i].title) # toLower(last.query)
           /\ collapseNonAlnum(last.listed[i].title) # << >>

\* C26: such a call never answers CATEGORY_NOT_FOUND: it answers the id of
\* the category when the listing has one, and otherwise AMBIGUOUS_CATEGORY
\* with every listed category, in listing order, as a candidate.
C26_BlankQueryHitsAll ==
    BlankQueryReachesTier5 =>
        last.result =
            IF Len(last.listed) = 1
            THEN Success([category_id |-> last.listed[1].id])
            ELSE Failure([error |-> "AMBIGUOUS_CATEGORY",
                          candidates |->
                              [i \in DOMAIN last.listed |->
                                   [id |-> last.listed[i].id,
                                    title |-> last.listed[i].title]]])

\* The query is a lone space and two categories are listed: ambiguous, both
\* listed.
C26_Witness ==
    /\ BlankQueryReachesTier5
    /\ last.query = << " " >>
    /\ Len(last.listed) = 2
    /\ last.tier = 5
    /\ IsAmbiguous(last.result)

\* The query is empty and one category is listed: it is the match.
C26_WitnessOne ==
    /\ BlankQueryReachesTier5
    /\ last.query = << >>
    /\ Len(last.listed) = 1
    /\ last.result = Success([category_id |-> 1])

\* A resolveFeedId call has read the listing.
FeedsRead ==
    /\ last.tool = "resolveFeedId"
    /\ last.status = "ok"

\* The texts of a feed that tiers 2 and 3 compare: the title and the two
\* URLs, a missing URL counting as the empty string.
FeedTexts(f) ==
    { f.title, OrEmpty(f.site_url), OrEmpty(f.feed_url) }

UrlTexts(f) ==
    { OrEmpty(f.site_url), OrEmpty(f.feed_url) }

LacksUrl(f) ==
    f.site_url = None \/ f.feed_url = None

\* Feed f hits tier k (1 to 3) for the query of the call.
EqualityHit(k, f) ==
    CASE k = 1 -> f.title = last.query
      [] k = 2 -> \E t \in FeedTexts(f) : toLower(t) = toLower(last.query)
      [] k = 3 -> \E t \in FeedTexts(f) : collapseNonAlnum(t) = collapseNonAlnum(last.query)

\* The first listed feed that hits the first of tiers 1 to 3 that any feed
\* hits.
FirstEqualityMatch ==
    LET hitTiers == { k \in 1 .. 3 : \E i \in DOMAIN last.listed : EqualityHit(k, last.listed[i]) }
        tier == CHOOSE k \in hitTiers : \A j \in hitTiers : k <= j
        at == CHOOSE i \in DOMAIN last.listed :
                  /\ EqualityHit(tier, last.listed[i])
                  /\ \A j \in 1 .. (i - 1) : ~EqualityHit(tier, last.listed[j])
    IN  [tier |-> tier, id |-> last.listed[at].id]

FirstLackingUrl ==
    last.listed[CHOOSE i \in DOMAIN last.listed :
                    /\ LacksUrl(last.listed[i])
                    /\ \A j \in 1 .. (i - 1) : ~LacksUrl(last.listed[j])]

\* Some listed feed has a URL equal to the query, folded or collapsed.
UrlEqualsQuery ==
    \E i \in DOMAIN last.listed : \E t \in UrlTexts(last.listed[i]) :
        \/ toLower(t) = toLower(last.query)
        \/ collapseNonAlnum(t) = collapseNonAlnum(last.query)

\* The folded or the collapsed form of the query is empty (an empty folded
\* form is an empty collapsed form too) and some listed feed lacks a URL.
BlankQueryAndUrlLacking ==
    /\ FeedsRead
    /\ collapseNonAlnum(last.query) = << >>
    /\ \E i \in DOMAIN last.listed : LacksUrl(last.listed[i])

\* A listed title equals the query as written, folded or collapsed.
TitleEqualsQuery ==
    \E i \in DOMAIN last.listed :
        \/ last.listed[i].title = last.query
        \/ toLower(last.listed[i].title) = toLower(last.query)
        \/ collapseNonAlnum(last.listed[i].title) = collapseNonAlnum(last.query)

\* When a listed feed has a URL that equals the query folded or collapsed,
\* the call is decided at tiers 1 to 3: the answer is the first listed feed
\* hitting the first such tier that has a hit, whatever titles hit tier 4.
UrlEqualityDecides ==
    (FeedsRead /\ UrlEqualsQuery) =>
        /\ last.tier \in 1 .. 3
        /\ last.tier = FirstEqualityMatch.tier
        /\ last.result = Success([feed_id |-> FirstEqualityMatch.id])

\* C27 as stated: moreover a query whose folded or collapsed form is empty
\* is answered with the first listed feed that lacks a URL.
C27_AsStated ==
    /\ UrlEqualityDecides
    /\ BlankQueryAndUrlLacking =>
           last.result = Success([feed_id |-> FirstLackingUrl.id])

\* C27: tiers 2 and 3 compare the URLs as well as the title, a missing URL
\* as the empty string; a query whose folded or collapsed form is empty is
\* answered with the first listed feed that lacks a URL, provided no listed
\* title equals the query as written, folded or collapsed.
C27_UrlsInEqualityTiers ==
    /\ UrlEqualityDecides
    /\ (BlankQueryAndUrlLacking /\ ~TitleEqualsQuery) =>
           /\ last.tier \in 2 .. 3
           /\ last.result = Success([feed_id |-> FirstLackingUrl.id])

\* The query tech.io is answered with the feed whose site_url it is, at tier
\* 2, although the title of the other listed feed hits tier 4.
C27_Witness ==
    /\ FeedsRead
    /\ last.query = TechIo
    /\ Len(last.listed) = 2
    /\ \E i \in DOMAIN last.listed :
           /\ last.listed[i].title = TechIoTitle
           /\ tokensAreSubset(tokenizeAlnum(last.query), tokenizeAlnum(TechIoTitle))
    /\ \E i \in DOMAIN last.listed :
           /\ last.listed[i].site_url = Some(TechIo)
           /\ last.result = Success([feed_id |-> last.listed[i].id])
    /\ last.tier = 2

\* A lone space is answered with the second listed feed, the first that
\* lacks a URL.
C27_WitnessBlank ==
    /\ BlankQueryAndUrlLacking
    /\ ~TitleEqualsQuery
    /\ last.query = << " " >>
    /\ Len(last.listed) = 2
    /\ ~LacksUrl(last.listed[1])
    /\ last.result = Success([feed_id |-> last.listed[2].id])
    /\ last.tier = 3

\* A page has arrived; the page says there is no more.
PageArrived ==
    last.tool = "searchEntries"

LastPageArrived ==
    /\ last.tool = "searchEntries"
    /\ ~last.result.content.has_more

\* The offset the caller supplied, 0 when it supplied none.
SuppliedOffset ==
    IF Supplied(last.args, "offset") THEN last.args.offset ELSE 0

C29_AsStated ==
    (last.tool = "searchEntries" /\ last.status = "ok") =>
        LET params == last.request.params
            page == last.result.content
        IN  /\ ParamValues(params, "limit") = << ToDecimal(page.limit) >>
            /\ ToDecimal(page.offset) =
                   IF "offset" \in ParamNames(params)
                   THEN ParamValues(params, "offset")[1] ELSE << "0" >>

\* What holds instead: the reported limit is the limit sent; the reported
\* offset is the offset sent unless that is negative, and then it is 0.
C29_OffsetReportedClamped ==
    (last.tool = "searchEntries" /\ last.status = "ok") =>
        LET params == last.request.params
            page == last.result.content
        IN  /\ ParamValues(params, "limit") = << ToDecimal(page.limit) >>
            /\ page.offset =
                   IF Supplied(last.args, "offset") /\ last.args.offset > 0
                   THEN last.args.offset ELSE 0
            /\ "offset" \in ParamNames(params) =>
                   ParamValues(params, "offset") = << ToDecimal(last.args.offset) >>

\* The caller supplies offset -1: offset=-1 is sent and offset 0 reported.
C29_Witness ==
    /\ last.tool = "searchEntries"
    /\ last.status = "ok"
    /\ Supplied(last.args, "offset")
    /\ last.args.offset = -1
    /\ ParamValues(last.request.params, "offset") = << << "-", "1" >> >>
    /\ last.result.content.offset = 0

(***************************************************************************)
(* The resolvers on a reordered listing                                    *)
(***************************************************************************)
\* Every order in which upstream could have listed the records of the last call.
Reorderings ==
    { [i \in DOMAIN last.listed |-> last.listed[p[i]]] :
          p \in Permutations(DOMAIN last.listed) }

\* The result of the last call's resolver on the listing lst, same query.
ResultOn(lst) ==
    IF ForCategories
    THEN resolveCategoryId(lst, last.query).result
    ELSE resolveFeedId(lst, last.query).result

Variant(r) ==
    IF IsMatched(r) THEN "Matched"
    ELSE IF IsAmbiguous(r) THEN "Ambiguous"
    ELSE "NotFound"

CandidateSet(r) ==
    { r.content.candidates[i] : i \in DOMAIN r.content.candidates }

\* Two or more listed records hit at the tier that decided the last call, and
\* that tier is one of the three equality tiers.
SeveralHitAtEqualityTier ==
    /\ last.tier \in 1 .. 3
    /\ Len(HitsAt(last.tier)) >= 2

\* C30: for a fixed query, reordering the upstream listing changes neither the
\* outcome variant (Matched, Ambiguous, NotFound) nor the set of Ambiguous
\* candidates; the Matched id can change only when two or more records hit at
\* the deciding tier and that tier is one of tiers 1-3.
C30_OrderIndependent ==
    ResolverAnswered =>
        \A lst \in Reorderings :
            LET r == ResultOn(lst)
            IN  /\ Variant(r) = Variant(last.result)
                /\ IsAmbiguous(last.result) =>
                       CandidateSet(r) = CandidateSet(last.result)
                /\ (IsMatched(last.result) /\ r # last.result) =>
                       SeveralHitAtEqualityTier

\* A call decided at an equality tier that two records hit: the other listing
\* order gives the other id.
C30_Witness ==
    /\ ResolverAnswered
    /\ IsMatched(last.result)
    /\ SeveralHitAtEqualityTier
    /\ \E lst \in Reorderings :
           /\ IsMatched(ResultOn(lst))
           /\ ResultOn(lst) # last.result

\* An Ambiguous call: the other listing order lists the same candidates in
\* another order.
C30_WitnessAmbiguous ==
    /\ ResolverAnswered
    /\ IsAmbiguous(last.result)
    /\ \E lst \in Reorderings :
           /\ ResultOn(lst) # last.result
           /\ CandidateSet(ResultOn(lst)) = CandidateSet(last.result)

\* A call matched at the token or partial tier by the only record that hits,
\* with another record listed: the other order gives the same id.
C30_WitnessSingleHit ==
    /\ ResolverAnswered
    /\ IsMatched(last.result)
    /\ last.tier \in 4 .. 5
    /\ Len(last.listed) >= 2
    /\ \A lst \in Reorderings : ResultOn(lst) = last.result

====
